---- MODULE Spec2Model ----
(***************************************************************************)
(* Model of the stateful parts of the vscode-monkey2 extension:            *)
(*   - the debug adapter session (m2Debug.ts): breakpoint and thread       *)
(*     bookkeeping, the Command relays, threadsRequest;                    *)
(*   - the test commands and lastTestConfig (m2Test.ts);                   *)
(*   - the binary path cache (m2Path.ts);                                  *)
(*   - the coverage range map (m2Cover.ts);                                *)
(*   - the cached tool version (util.ts);                                  *)
(*   - the implementation provider's cancellation (m2Implementations.ts);  *)
(*   - runTool (m2Check.ts).                                               *)
(* The subsystems share no state, so each has its own specification over   *)
(* the same variables; the other subsystems' variables stay unchanged.     *)
(***************************************************************************)
EXTENDS Integers, Sequences, FiniteSets, TLC

\* ---------------------------------------------------------------- bounds
MaxBpReqs == 3     \* setBreakPointsRequest calls in one run
MaxLine == 1       \* source lines 0..MaxLine (line 0 holds no code)
MaxLinesPerReq == 2 \* length of args.lines
MaxGoroutine == 2  \* goroutine ids 1..MaxGoroutine
MaxDbgRequests == 2 \* host requests to the debug session in one run
MaxTestCmds == 3   \* test commands invoked in one run
MaxLookups == 3    \* tool lookups in one run
MaxFsChanges == 2  \* tool binaries appearing or disappearing in one run
MaxPreferred == 2  \* preferred paths passed to one lookup
MaxCoverCalls == 2     \* getCoverage calls in one run
MaxProfileLines == 2   \* lines of one coverage profile
MaxStartLine == 1      \* largest line number in a coverage profile
MaxEditors == 2        \* text editors visible at a time
MaxVersionCalls == 3   \* getGoVersion calls in one run
MaxRuntimeChanges == 1 \* times the runtime binary appears or disappears
MaxImplCalls == 2      \* provideImplementation calls in one run
MaxOutputLines == 2    \* lines a tool writes to stdout or to stderr
MaxInstallCalls == 1   \* installTools calls in one run
MaxInstallList == 2    \* tools passed to one installTools call
MaxPrompts == 3        \* promptForMissingTool and promptForUpdatingTool calls in one run
MaxSaves == 4          \* save events of the document in one run, the user's and the handler's own
MaxConfigEvents == 2   \* configuration-change events in one run
MaxToggles == 2        \* toggle commands in one run
MaxSigLen == 8         \* characters of a signature
MaxVendorCalls == 3     \* isVendorSupported calls in one run
MaxPkgPathLen == 5     \* characters of a package path
MaxFileDirLen == 3     \* characters of the folder of the current file below the workspace
MaxAppends == 3        \* append calls on one LineBuffer
MaxChunkLen == 2       \* characters of one chunk

Null == "null"

\* ------------------------------------------------------------- variables
VARIABLES
    \* GoDebugSession.breakpoints : Map<string, DebugBreakpoint[]>
    breakpoints,
    \* the breakpoints that exist in the remote debugger (Delve)
    remoteBps,
    \* next breakpoint id Delve hands out
    nextBpId,
    \* one record per setBreakPointsRequest call (its promise chain)
    bpReqs,
    \* history: some request arrived while an earlier one was still running
    bpOverlap,
    \* GoDebugSession.debugState : the last state a Command RPC returned
    debugState,
    \* GoDebugSession.threads : Set<number>, in insertion order
    threads,
    \* launchArgs.stopOnEntry
    stopOnEntry,
    \* the RPCs in flight to Delve: Command and ListGoroutines calls
    pendingRpcs,
    \* number of RPCs issued so far (names the RPCs)
    rpcCount,
    \* number of host requests handled so far
    dbgRequests,
    \* the debugged program has exited (Delve's side)
    progExited,
    \* an exception escaped a callback: the adapter process is gone
    crashed,
    \* the handler that ran last, with its inputs
    lastStep,
    \* the events and the responses that handler sent, in order
    lastEvents,
    lastResponses,
    \* m2Test.ts: let lastTestConfig
    lastTestConfig,
    \* getTestFunctions promises not yet settled (testAtCursor, testCurrentFile)
    testLookups,
    \* number of test commands invoked so far (names the TestConfig objects)
    testCmdCount,
    \* history: the TestConfig most recently passed to goTest by one of
    \* testAtCursor, testCurrentFile, testCurrentPackage, testWorkspace
    lastRunByCommand,
    \* the test handler that ran last: what it was, what lastTestConfig was
    \* before, the config it passed to goTest, the message it showed
    lastTestStep,
    \* m2Path.ts: let binPathCache, keyed by the corrected binary name
    binPathCache,
    \* the tool binaries that exist on disk, as <<folder, binary name>>
    binFiles,
    \* the lookup made last: its arguments, what it returned and what a
    \* search without the cache returned at that moment
    lastLookup,
    lookupCount,
    fsChanges,
    \* m2Cover.ts: let coverageFiles, per file the covered and uncovered ranges
    coverageFiles,
    \* the coverage decorations each visible text editor shows
    decorations,
    \* the getCoverage calls: the profile each reads and how far it has read
    coverCalls,
    \* the call that resolved last, with the map it left
    lastResolved,
    \* util.ts: let goVersion, the cached version
    goVersion,
    \* m2Path.ts: let runtimePathCache, here whether it is set
    runtimePathCache,
    \* whether the mx2cc binary exists on disk
    runtimeExists,
    runtimeChanges,
    \* the getGoVersion calls: idle, running the binary, or resolved
    versionCalls,
    \* the step made last by a getGoVersion call
    lastVersionStep,
    \* the provideImplementation calls: per call its promise, its token,
    \* its two child processes and the moment cancellation was requested
    impl,
    \* the runTool call in progress: its arguments and, once the execFile
    \* callback has run, what execFile reported and what the promise
    \* resolved with
    toolRun,
    \* the installTools calls: per call its list, the tools whose install
    \* was started, the results so far and what was reported
    installs,
    \* the install child processes that are running
    installChildren,
    \* m2InstallTools.ts: let installsDeclinedTools, let updatesDeclinedTools
    installsDeclinedTools,
    updatesDeclinedTools,
    \* the prompts under way: waiting for the version, or shown to the user
    prompts,
    promptCount,
    \* the prompts the user has dismissed, as <<kind, tool>>
    dismissed,
    \* the promptFor... call made last and whether it went on to prompt
    lastPromptCall,
    \* startBuildOnSaveWatcher: whether ignoreNextSave holds the document
    ignoreNextSave,
    \* the save events of the document so far, each with what the handler did
    saves,
    \* the m2 configuration in effect
    config,
    \* process.platform is win32
    win32,
    \* activate: let useLangServer, let langServerFlags, let toolsGopath
    useLangServer,
    langServerFlags,
    toolsGopath,
    \* -1 before activate, then the number of change events handled
    configEvents,
    \* the change event handled last and what its handler did
    lastConfigEvent,
    \* vscode.window.visibleTextEditors, the fsPath of each document
    visibleEditors,
    \* vscode.window.activeTextEditor as an index of visibleEditors, 0 when none
    activeEditor,
    \* go test runs started by the toggle that have not settled
    testsRunning,
    toggleCount,
    \* the last step of the toggle command and what it did
    lastToggle,
    \* the signature text handed to parameters(), a sequence of characters
    sig,
    \* the last parameters() call: its argument and what it returned
    lastParameters,
    \* util.ts: let vendorSupport
    vendorSupport,
    \* process.env[GO15VENDOREXPERIMENT]
    go15VendorExperiment,
    \* the isVendorSupported calls and the getGoVersion call each waits for
    vendorCalls,
    \* the output of the runtime binary that goVersion was parsed from
    versionSource,
    \* the isVendorSupported call that resolved last
    lastVendor,
    \* a package path of allPkgs, a sequence of characters
    pkgPath,
    \* the folder of the current file below the workspace folder
    fileDirSuffix,
    \* the last getRelativePackagePath() call: its arguments and what it returned
    lastRelative,
    \* LineBuffer.buf
    lineBuf,
    \* the lines the line listeners were called with, in order
    firedLines,
    \* the chunks appended so far, concatenated
    fedText,
    appendCount,
    \* the done() call: what the done listeners were called with
    lastDone

varsBp == <<breakpoints, remoteBps, nextBpId, bpReqs, bpOverlap>>
varsDbg == <<debugState, threads, stopOnEntry, pendingRpcs, rpcCount, dbgRequests,
             progExited, crashed, lastStep, lastEvents, lastResponses>>

varsTest == <<lastTestConfig, testLookups, testCmdCount, lastRunByCommand, lastTestStep>>
varsPath == <<binPathCache, binFiles, lastLookup, lookupCount, fsChanges>>
varsCover == <<coverageFiles, decorations, coverCalls, lastResolved>>
varsVersion ==
    <<goVersion, runtimePathCache, runtimeExists, runtimeChanges, versionCalls, lastVersionStep>>

varsImpl == <<impl>>
varsTool == <<toolRun>>

varsInstall == <<installs, installChildren>>
varsPrompt == <<installsDeclinedTools, updatesDeclinedTools, prompts, promptCount, dismissed, lastPromptCall>>
varsSave == <<ignoreNextSave, saves>>
varsConfig == <<config, win32, useLangServer, langServerFlags, toolsGopath, configEvents, lastConfigEvent>>
varsToggle == <<visibleEditors, activeEditor, testsRunning, toggleCount, lastToggle>>
varsParams == <<sig, lastParameters>>
varsVendor == <<vendorSupport, go15VendorExperiment, vendorCalls, versionSource, lastVendor>>
varsPkg == <<pkgPath, fileDirSuffix, lastRelative>>
varsLineBuf == <<lineBuf, firedLines, fedText, appendCount, lastDone>>
vars == <<varsBp, varsDbg, varsTest, varsPath, varsCover, varsVersion, varsImpl, varsTool, varsInstall, varsPrompt, varsSave, varsConfig, varsToggle, varsParams, varsVendor, varsPkg, varsLineBuf>>
notBp == <<varsDbg, varsTest, varsPath, varsCover, varsVersion, varsImpl, varsTool, varsInstall, varsPrompt, varsSave, varsConfig, varsToggle, varsParams, varsVendor, varsPkg, varsLineBuf>>
notDbg == <<varsBp, varsTest, varsPath, varsCover, varsVersion, varsImpl, varsTool, varsInstall, varsPrompt, varsSave, varsConfig, varsToggle, varsParams, varsVendor, varsPkg, varsLineBuf>>
notTest == <<varsBp, varsDbg, varsPath, varsCover, varsVersion, varsImpl, varsTool, varsInstall, varsPrompt, varsSave, varsConfig, varsToggle, varsParams, varsVendor, varsPkg, varsLineBuf>>
notPath == <<varsBp, varsDbg, varsTest, varsCover, varsVersion, varsImpl, varsTool, varsInstall, varsPrompt, varsSave, varsConfig, varsToggle, varsParams, varsVendor, varsPkg, varsLineBuf>>
notCover == <<varsBp, varsDbg, varsTest, varsPath, varsVersion, varsImpl, varsTool, varsInstall, varsPrompt, varsSave, varsConfig, varsToggle, varsParams, varsVendor, varsPkg, varsLineBuf>>
notVersion == <<varsBp, varsDbg, varsTest, varsPath, varsCover, varsImpl, varsTool, varsInstall, varsPrompt, varsSave, varsConfig, varsToggle, varsParams, varsVendor, varsPkg, varsLineBuf>>
notImpl == <<varsBp, varsDbg, varsTest, varsPath, varsCover, varsVersion, varsTool, varsInstall, varsPrompt, varsSave, varsConfig, varsToggle, varsParams, varsVendor, varsPkg, varsLineBuf>>
notTool == <<varsBp, varsDbg, varsTest, varsPath, varsCover, varsVersion, varsImpl, varsInstall, varsPrompt, varsSave, varsConfig, varsToggle, varsParams, varsVendor, varsPkg, varsLineBuf>>
notInstall == <<varsBp, varsDbg, varsTest, varsPath, varsCover, varsVersion, varsImpl, varsTool, varsPrompt, varsSave, varsConfig, varsToggle, varsParams, varsVendor, varsPkg, varsLineBuf>>
notPrompt == <<varsBp, varsDbg, varsTest, varsPath, varsCover, varsVersion, varsImpl, varsTool, varsInstall, varsSave, varsConfig, varsToggle, varsParams, varsVendor, varsPkg, varsLineBuf>>
notSave == <<varsBp, varsDbg, varsTest, varsPath, varsCover, varsVersion, varsImpl, varsTool, varsInstall, varsPrompt, varsConfig, varsToggle, varsParams, varsVendor, varsPkg, varsLineBuf>>
notConfig == <<varsBp, varsDbg, varsTest, varsPath, varsCover, varsVersion, varsImpl, varsTool, varsInstall, varsPrompt, varsSave, varsToggle, varsParams, varsVendor, varsPkg, varsLineBuf>>
notConfigPath == <<varsBp, varsDbg, varsTest, varsCover, varsVersion, varsImpl, varsTool, varsInstall, varsPrompt, varsSave, varsToggle, varsParams, varsVendor, varsPkg, varsLineBuf>>
notToggle == <<varsBp, varsDbg, varsTest, varsPath, varsCover, varsVersion, varsImpl, varsTool, varsInstall, varsPrompt, varsSave, varsConfig, varsParams, varsVendor, varsPkg, varsLineBuf>>
notCoverToggle == <<varsBp, varsDbg, varsTest, varsPath, varsVersion, varsImpl, varsTool, varsInstall, varsPrompt, varsSave, varsConfig, varsParams, varsVendor, varsPkg, varsLineBuf>>
notParams == <<varsBp, varsDbg, varsTest, varsPath, varsCover, varsVersion, varsImpl, varsTool, varsInstall, varsPrompt, varsSave, varsConfig, varsToggle, varsVendor, varsPkg, varsLineBuf>>
notVendor == <<varsBp, varsDbg, varsTest, varsPath, varsCover, varsVersion, varsImpl, varsTool, varsInstall, varsPrompt, varsSave, varsConfig, varsToggle, varsParams, varsPkg, varsLineBuf>>
notVersionVendor == <<varsBp, varsDbg, varsTest, varsPath, varsCover, varsImpl, varsTool, varsInstall, varsPrompt, varsSave, varsConfig, varsToggle, varsParams, varsPkg, varsLineBuf>>
notPkg == <<varsBp, varsDbg, varsTest, varsPath, varsCover, varsVersion, varsImpl, varsTool, varsInstall, varsPrompt, varsSave, varsConfig, varsToggle, varsParams, varsVendor, varsLineBuf>>
notLineBuf == <<varsBp, varsDbg, varsTest, varsPath, varsCover, varsVersion, varsImpl, varsTool, varsInstall, varsPrompt, varsSave, varsConfig, varsToggle, varsParams, varsVendor, varsPkg>>

\* ----------------------------------------------------------------------
\* Debug session: setBreakPointsRequest
\* ----------------------------------------------------------------------
Files == {"a.go", "b.go"}
Lines == 0..MaxLine
BpReqIds == 1..MaxBpReqs

RECURSIVE SeqsUpTo(_, _)
SeqsUpTo(S, n) ==
    IF n = 0 THEN {<<>>}
    ELSE LET shorter == SeqsUpTo(S, n - 1)
         IN shorter \cup {Append(s, x) : s \in {t \in shorter : Len(t) = n - 1}, x \in S}

LineLists == SeqsUpTo(Lines, MaxLinesPerReq)

\* Delve refuses a breakpoint where there is no code or where one exists.
RemoteCanCreate(file, line) ==
    /\ line >= 1
    /\ ~\E b \in remoteBps : b.file = file /\ b.line = line

IdleBpReq == [phase |-> "idle", file |-> Null, lines |-> <<>>,
              pendingClear |-> {}, pendingCreate |-> {}, created |-> <<>>]

\* newBreakpoints.filter(x => !!x): the ids of the created breakpoints
CreatedIds(created) == {created[i] : i \in DOMAIN created} \ {0}

\* The continuation after Promise.all(clear...) resolved: send the creates;
\* with no line to create the whole chain finishes in the same turn.
AfterAllCleared(r, req) ==
    IF Len(req.lines) = 0
    THEN /\ breakpoints' = [breakpoints EXCEPT ![req.file] = {}]
         /\ bpReqs' = [bpReqs EXCEPT ![r] = [req EXCEPT !.phase = "done"]]
    ELSE /\ breakpoints' = breakpoints
         /\ bpReqs' = [bpReqs EXCEPT ![r] =
               [req EXCEPT !.phase = "creating",
                           !.pendingCreate = 1..Len(req.lines),
                           !.created = [i \in 1..Len(req.lines) |-> 0]]]

setBreakPointsRequest(r, file, lines) ==
    /\ bpReqs[r].phase = "idle"
    /\ \A q \in BpReqIds : q < r => bpReqs[q].phase # "idle"
    /\ LET existing == breakpoints[file]
           req == [IdleBpReq EXCEPT !.file = file, !.lines = lines,
                                    !.pendingClear = existing]
       IN IF existing = {}
          THEN AfterAllCleared(r, req)
          ELSE /\ bpReqs' = [bpReqs EXCEPT ![r] = [req EXCEPT !.phase = "clearing"]]
               /\ breakpoints' = breakpoints
    /\ bpOverlap' = (bpOverlap \/ \E q \in BpReqIds : bpReqs[q].phase \in {"clearing", "creating"})
    /\ UNCHANGED <<remoteBps, nextBpId, notBp>>

\* Delve executes ClearBreakpoint(id) and the reply reaches the session.
ClearBreakpointReply(r, id) ==
    /\ bpReqs[r].phase \in {"clearing", "failed"}
    /\ id \in bpReqs[r].pendingClear
    /\ LET req == [bpReqs[r] EXCEPT !.pendingClear = @ \ {id}]
           exists == \E b \in remoteBps : b.id = id
       IN /\ remoteBps' = {b \in remoteBps : b.id # id}
          /\ IF req.phase = "failed"
             THEN \* Promise.all already rejected: the reply is dropped
                  /\ bpReqs' = [bpReqs EXCEPT ![r] = req]
                  /\ breakpoints' = breakpoints
             ELSE IF ~exists
             THEN \* callPromise rejects, Promise.all rejects: error 2002
                  /\ bpReqs' = [bpReqs EXCEPT ![r] = [req EXCEPT !.phase = "failed"]]
                  /\ breakpoints' = breakpoints
             ELSE IF req.pendingClear = {}
             THEN AfterAllCleared(r, req)
             ELSE /\ bpReqs' = [bpReqs EXCEPT ![r] = req]
                  /\ breakpoints' = breakpoints
    /\ UNCHANGED <<nextBpId, bpOverlap, notBp>>

\* Delve executes CreateBreakpoint for args.lines[i] and the reply arrives;
\* an error is turned into null. When the last reply is in, the new list
\* replaces the file's entry and the response is sent.
CreateBreakpointReply(r, i) ==
    /\ bpReqs[r].phase = "creating"
    /\ i \in bpReqs[r].pendingCreate
    /\ LET req == bpReqs[r]
           ok == RemoteCanCreate(req.file, req.lines[i])
           created == [req.created EXCEPT ![i] = IF ok THEN nextBpId ELSE 0]
           left == req.pendingCreate \ {i}
       IN /\ remoteBps' = IF ok
                THEN remoteBps \cup {[id |-> nextBpId, file |-> req.file, line |-> req.lines[i]]}
                ELSE remoteBps
          /\ nextBpId' = IF ok THEN nextBpId + 1 ELSE nextBpId
          /\ bpReqs' = [bpReqs EXCEPT ![r] =
                [req EXCEPT !.pendingCreate = left, !.created = created,
                            !.phase = IF left = {} THEN "done" ELSE "creating"]]
          /\ breakpoints' = IF left = {}
                THEN [breakpoints EXCEPT ![req.file] = CreatedIds(created)]
                ELSE breakpoints
          /\ UNCHANGED <<bpOverlap, notBp>>

InitBp ==
    /\ breakpoints = [f \in Files |-> {}]
    /\ remoteBps = {}
    /\ nextBpId = 1
    /\ bpReqs = [r \in BpReqIds |-> IdleBpReq]
    /\ bpOverlap = FALSE

NextBp ==
    \/ \E r \in BpReqIds, f \in Files, ls \in LineLists : setBreakPointsRequest(r, f, ls)
    \/ \E r \in BpReqIds, id \in 1..(MaxBpReqs * MaxLinesPerReq) : ClearBreakpointReply(r, id)
    \/ \E r \in BpReqIds, i \in 1..MaxLinesPerReq : CreateBreakpointReply(r, i)

\* every request has completed: responded, and none of its RPCs is in flight
AllBpRequestsCompleted ==
    \A r \in BpReqIds :
        /\ bpReqs[r].phase \in {"idle", "done", "failed"}
        /\ bpReqs[r].pendingClear = {}

RemoteIdsOf(f) == {b.id : b \in {x \in remoteBps : x.file = f}}

\* C1: once every setBreakPointsRequest has completed, the breakpoints
\* recorded for each file are exactly those that exist in the debugger.
C1_BreakpointsMirrorRemote ==
    AllBpRequestsCompleted => \A f \in Files : breakpoints[f] = RemoteIdsOf(f)

\* The same statement for runs in which no two requests overlapped.
C1_NoOverlapMirrors ==
    (AllBpRequestsCompleted /\ ~bpOverlap)
        => \A f \in Files : breakpoints[f] = RemoteIdsOf(f)

\* ----------------------------------------------------------------------
\* Debug session: Command relays, handleReenterDebug, threadsRequest
\* ----------------------------------------------------------------------
Gids == 1..MaxGoroutine

RECURSIVE DistinctSeqs(_)
\* the sequences without repetition over the subsets of S
DistinctSeqs(S) ==
    {<<>>} \cup UNION {{<<x>> \o t : t \in DistinctSeqs(S \ {x})} : x \in S}

Range(q) == {q[i] : i \in DOMAIN q}

\* DebuggerState as a Command RPC returns it
\* (isNull marks the null reference; goroutine id 0 stands for a null
\* currentGoroutine, which an exited program has)
NullState == [isNull |-> TRUE, exited |-> FALSE, currentGoroutine |-> 0]
ExitedState == [isNull |-> FALSE, exited |-> TRUE, currentGoroutine |-> 0]
StoppedState(g) == [isNull |-> FALSE, exited |-> FALSE, currentGoroutine |-> g]

\* conn.call's callback arguments (err, result): the result is null on error
CommandErr == [err |-> TRUE, state |-> NullState]
CommandOk(st) == [err |-> FALSE, state |-> st]
ListErr == [err |-> TRUE, goroutines |-> <<>>]
ListOk(gs) == [err |-> FALSE, goroutines |-> gs]

\* What Delve may answer to a Command: an error, or the state it stopped in.
CommandReplies ==
    {CommandErr} \cup {CommandOk(ExitedState)}
        \cup (IF progExited THEN {} ELSE {CommandOk(StoppedState(g)) : g \in Gids})

\* What Delve may answer to ListGoroutines.
ListGoroutinesReplies ==
    {ListErr} \cup (IF progExited THEN {} ELSE {ListOk(gs) : gs \in DistinctSeqs(Gids)})

ThreadEvent(reason, id) == [type |-> "thread", reason |-> reason, id |-> id]
StoppedEvent(reason, id) == [type |-> "stopped", reason |-> reason, id |-> id]
TerminatedEvent == [type |-> "terminated", reason |-> Null, id |-> 0]

CommandNames == {"continue", "next", "step", "stepOut"}
ReasonOf(name) == IF name = "continue" THEN "breakpoint" ELSE "step"

NoStep == [kind |-> "none", name |-> Null, cmdReply |-> CommandErr, listReply |-> ListErr,
           before |-> <<>>, stateAtReply |-> NullState]

\* this.delve.call('Command', [{name}], cb): one RPC in flight
CommandRpc(name) == [id |-> rpcCount + 1, call |-> "Command", name |-> name, reason |-> ReasonOf(name)]
ListRpc(for, reason) == [id |-> rpcCount + 1, call |-> "ListGoroutines", name |-> for, reason |-> reason]

\* continueRequest / nextRequest / stepInRequest / stepOutRequest:
\* issue the Command RPC, then send the response at once.
RelayCommand(name) ==
    /\ pendingRpcs' = pendingRpcs \cup {CommandRpc(name)}
    /\ rpcCount' = rpcCount + 1
    /\ lastEvents' = <<>>
    /\ lastResponses' = <<[kind |-> "ok", threads |-> <<>>]>>

CanHandleRequest == ~crashed /\ dbgRequests < MaxDbgRequests
\* the host sends configurationDone before any other request modelled here
Configured == dbgRequests > 0

continueRequest ==
    /\ CanHandleRequest
    /\ Configured
    /\ RelayCommand("continue")
    /\ lastStep' = [NoStep EXCEPT !.kind = "request", !.name = "continue"]
    /\ dbgRequests' = dbgRequests + 1
    /\ UNCHANGED <<debugState, threads, stopOnEntry, progExited, crashed, notDbg>>

nextRequest ==
    /\ CanHandleRequest
    /\ Configured
    /\ RelayCommand("next")
    /\ lastStep' = [NoStep EXCEPT !.kind = "request", !.name = "next"]
    /\ dbgRequests' = dbgRequests + 1
    /\ UNCHANGED <<debugState, threads, stopOnEntry, progExited, crashed, notDbg>>

stepInRequest ==
    /\ CanHandleRequest
    /\ Configured
    /\ RelayCommand("step")
    /\ lastStep' = [NoStep EXCEPT !.kind = "request", !.name = "step"]
    /\ dbgRequests' = dbgRequests + 1
    /\ UNCHANGED <<debugState, threads, stopOnEntry, progExited, crashed, notDbg>>

stepOutRequest ==
    /\ CanHandleRequest
    /\ Configured
    /\ RelayCommand("stepOut")
    /\ lastStep' = [NoStep EXCEPT !.kind = "request", !.name = "stepOut"]
    /\ dbgRequests' = dbgRequests + 1
    /\ UNCHANGED <<debugState, threads, stopOnEntry, progExited, crashed, notDbg>>

\* configurationDoneRequest: with stopOnEntry a StoppedEvent for thread 0
\* and the response, otherwise continueRequest(response).
configurationDoneRequest ==
    /\ CanHandleRequest
    /\ dbgRequests = 0
    /\ IF stopOnEntry
       THEN /\ lastEvents' = <<StoppedEvent("breakpoint", 0)>>
            /\ lastResponses' = <<[kind |-> "ok", threads |-> <<>>]>>
            /\ UNCHANGED <<pendingRpcs, rpcCount>>
       ELSE RelayCommand("continue")
    /\ lastStep' = [NoStep EXCEPT !.kind = "request", !.name = "configurationDone"]
    /\ dbgRequests' = dbgRequests + 1
    /\ UNCHANGED <<debugState, threads, stopOnEntry, progExited, crashed, notDbg>>

\* threadsRequest: only issues the ListGoroutines RPC; the callback answers.
threadsRequest ==
    /\ CanHandleRequest
    /\ Configured
    /\ pendingRpcs' = pendingRpcs \cup {ListRpc("threads", "none")}
    /\ rpcCount' = rpcCount + 1
    /\ lastEvents' = <<>>
    /\ lastResponses' = <<>>
    /\ lastStep' = [NoStep EXCEPT !.kind = "request", !.name = "threads"]
    /\ dbgRequests' = dbgRequests + 1
    /\ UNCHANGED <<debugState, threads, stopOnEntry, progExited, crashed, notDbg>>

\* handleReenterDebug's loop over the reply: the ids it announces as started
NewThreadIds(ths, gs) == SelectSeq(gs, LAMBDA g : g \notin Range(ths))
\* needsToBeStopped: the known ids the reply no longer holds
GoneThreadIds(ths, gs) == SelectSeq(ths, LAMBDA t : t \notin Range(gs))
\* this.threads after the adds and the deletes
ThreadsAfterNoDelete(ths, gs) == ths \o NewThreadIds(ths, gs)
ThreadsAfter(ths, gs) ==
    SelectSeq(ths \o NewThreadIds(ths, gs), LAMBDA t : t \in Range(gs))

ThreadEvents(ths, gs) ==
    [i \in 1..Len(NewThreadIds(ths, gs)) |-> ThreadEvent("started", NewThreadIds(ths, gs)[i])]
    \o [i \in 1..Len(GoneThreadIds(ths, gs)) |-> ThreadEvent("exited", GoneThreadIds(ths, gs)[i])]

\* The callback of a Command RPC: debugState = state; handleReenterDebug(reason).
\* Reading .exited of a null state throws; the exception is not caught.
CommandReply(rpc, reply) ==
    /\ ~crashed
    /\ rpc \in pendingRpcs /\ rpc.call = "Command"
    /\ reply \in CommandReplies
    /\ debugState' = reply.state
    /\ progExited' = (progExited \/ reply.state.exited)
    /\ lastStep' = [NoStep EXCEPT !.kind = "commandReply", !.name = rpc.name,
                                  !.cmdReply = reply, !.before = threads]
    /\ lastResponses' = <<>>
    /\ IF reply.state.isNull
       THEN /\ crashed' = TRUE
            /\ lastEvents' = <<>>
            /\ pendingRpcs' = pendingRpcs \ {rpc}
            /\ rpcCount' = rpcCount
       ELSE IF reply.state.exited
       THEN /\ crashed' = FALSE
            /\ lastEvents' = <<TerminatedEvent>>
            /\ pendingRpcs' = pendingRpcs \ {rpc}
            /\ rpcCount' = rpcCount
       ELSE /\ crashed' = FALSE
            /\ lastEvents' = <<>>
            /\ pendingRpcs' = (pendingRpcs \ {rpc}) \cup {ListRpc("reenter", rpc.reason)}
            /\ rpcCount' = rpcCount + 1
    /\ UNCHANGED <<threads, stopOnEntry, dbgRequests, notDbg>>

\* The ListGoroutines callback inside handleReenterDebug. Iterating a null
\* list throws before anything is sent; a null debugState or a null
\* currentGoroutine throws after the thread events, before the StoppedEvent.
handleReenterDebug(rpc, reply) ==
    /\ ~crashed
    /\ rpc \in pendingRpcs /\ rpc.call = "ListGoroutines" /\ rpc.name = "reenter"
    /\ reply \in ListGoroutinesReplies
    /\ pendingRpcs' = pendingRpcs \ {rpc}
    /\ lastStep' = [NoStep EXCEPT !.kind = "reenterReply", !.name = rpc.reason,
                                  !.listReply = reply, !.before = threads,
                                  !.stateAtReply = debugState]
    /\ lastResponses' = <<>>
    /\ IF reply.err
       THEN /\ crashed' = TRUE
            /\ lastEvents' = <<>>
            /\ threads' = threads
       ELSE /\ threads' = ThreadsAfter(threads, reply.goroutines)
            /\ IF debugState.isNull \/ debugState.currentGoroutine = 0
               THEN /\ crashed' = TRUE
                    /\ lastEvents' = ThreadEvents(threads, reply.goroutines)
               ELSE /\ crashed' = FALSE
                    /\ lastEvents' = Append(ThreadEvents(threads, reply.goroutines),
                                            StoppedEvent(rpc.reason, debugState.currentGoroutine))
    /\ UNCHANGED <<debugState, stopOnEntry, rpcCount, dbgRequests, progExited, notDbg>>

\* The ListGoroutines callback of threadsRequest.
ThreadsResponse(reply) ==
    IF debugState.exited THEN [kind |-> "threads", threads |-> <<>>]
    ELSE IF reply.err THEN [kind |-> "error2003", threads |-> <<>>]
    ELSE [kind |-> "threads", threads |-> reply.goroutines]

threadsReply(rpc, reply) ==
    /\ ~crashed
    /\ rpc \in pendingRpcs /\ rpc.call = "ListGoroutines" /\ rpc.name = "threads"
    /\ reply \in ListGoroutinesReplies
    /\ pendingRpcs' = pendingRpcs \ {rpc}
    /\ lastStep' = [NoStep EXCEPT !.kind = "threadsReply", !.listReply = reply,
                                  !.before = threads, !.stateAtReply = debugState]
    /\ lastEvents' = <<>>
    /\ IF debugState.isNull
       THEN /\ crashed' = TRUE
            /\ lastResponses' = <<>>
       ELSE /\ crashed' = FALSE
            /\ lastResponses' = <<ThreadsResponse(reply)>>
    /\ UNCHANGED <<debugState, threads, stopOnEntry, rpcCount, dbgRequests, progExited, notDbg>>

InitDbg ==
    /\ debugState = NullState
    /\ threads = <<>>
    /\ stopOnEntry \in BOOLEAN
    /\ pendingRpcs = {}
    /\ rpcCount = 0
    /\ dbgRequests = 0
    /\ progExited = FALSE
    /\ crashed = FALSE
    /\ lastStep = NoStep
    /\ lastEvents = <<>>
    /\ lastResponses = <<>>

NextDbg ==
    \/ configurationDoneRequest
    \/ continueRequest
    \/ nextRequest
    \/ stepInRequest
    \/ stepOutRequest
    \/ threadsRequest
    \/ \E rpc \in pendingRpcs, reply \in CommandReplies : CommandReply(rpc, reply)
    \/ \E rpc \in pendingRpcs, reply \in ListGoroutinesReplies : handleReenterDebug(rpc, reply)
    \/ \E rpc \in pendingRpcs, reply \in ListGoroutinesReplies : threadsReply(rpc, reply)

\* ---- properties of the debug session --------------------------------
EventsOf(type, reason) ==
    {i \in DOMAIN lastEvents : lastEvents[i].type = type /\ lastEvents[i].reason = reason}
EventIds(type, reason) == {lastEvents[i].id : i \in EventsOf(type, reason)}
StoppedEvents == {i \in DOMAIN lastEvents : lastEvents[i].type = "stopped"}

\* handleReenterDebug has just processed a ListGoroutines reply that carries
\* goroutines, and the session's debugState says the program has not exited
ReenterProcessedReply ==
    /\ lastStep.kind = "reenterReply"
    /\ ~lastStep.listReply.err
    /\ ~lastStep.stateAtReply.isNull
    /\ ~lastStep.stateAtReply.exited

\* C2: after handleReenterDebug processed a ListGoroutines reply while the
\* program has not exited, the thread-id set equals the reply's goroutine
\* ids; 'started' was sent exactly for the ids new in the reply, 'exited'
\* exactly for the known ids missing from it, each once; and one
\* StoppedEvent follows those thread events.
C2_ThreadsMirrorReply ==
    ReenterProcessedReply =>
        LET gs == Range(lastStep.listReply.goroutines)
            before == Range(lastStep.before)
            n == Len(lastEvents)
        IN /\ Range(threads) = gs
           /\ Len(threads) = Cardinality(gs)
           /\ EventIds("thread", "started") = gs \ before
           /\ Cardinality(EventsOf("thread", "started")) = Cardinality(gs \ before)
           /\ EventIds("thread", "exited") = before \ gs
           /\ Cardinality(EventsOf("thread", "exited")) = Cardinality(before \ gs)
           /\ n = Cardinality(gs \ before) + Cardinality(before \ gs) + 1
           /\ StoppedEvents = {n}
           /\ lastEvents[n] = StoppedEvent(lastStep.name, lastStep.stateAtReply.currentGoroutine)

\* a reply that both adds a goroutine and drops a known one
C2_Witness ==
    /\ ReenterProcessedReply
    /\ Range(lastStep.listReply.goroutines) \ Range(lastStep.before) # {}
    /\ Range(lastStep.before) \ Range(lastStep.listReply.goroutines) # {}

\* C8: each of the four requests relays one Command RPC and answers at
\* once; whenever the RPC returns, with a state or with an error, debugState
\* becomes the returned state and exactly one event follows: TerminatedEvent
\* if the state says exited, otherwise (after the goroutines were listed) a
\* StoppedEvent for the current goroutine with the request's reason.
C8_CommandRelayed ==
    /\ (lastStep.kind = "request" /\ lastStep.name \in CommandNames) =>
          /\ lastResponses = <<[kind |-> "ok", threads |-> <<>>]>>
          /\ \E rpc \in pendingRpcs :
                rpc.id = rpcCount /\ rpc.call = "Command" /\ rpc.name = lastStep.name
    /\ lastStep.kind = "commandReply" =>
          /\ debugState = lastStep.cmdReply.state
          /\ ~crashed
          /\ IF debugState.exited
             THEN lastEvents = <<TerminatedEvent>>
             ELSE /\ lastEvents = <<>>
                  /\ \E rpc \in pendingRpcs :
                        /\ rpc.id = rpcCount /\ rpc.call = "ListGoroutines"
                        /\ rpc.name = "reenter" /\ rpc.reason = ReasonOf(lastStep.name)
    /\ lastStep.kind = "reenterReply" =>
          /\ ~crashed
          /\ Cardinality(StoppedEvents) = 1
          /\ lastEvents[Len(lastEvents)] = StoppedEvent(lastStep.name, debugState.currentGoroutine)

\* C9: the ListGoroutines callback of threadsRequest sends exactly one
\* response whatever the session state: no threads if the program exited,
\* error 2003 if the RPC failed while it has not, else the goroutines.
C9_ThreadsAnsweredOnce ==
    lastStep.kind = "threadsReply" =>
        /\ Len(lastResponses) = 1
        /\ lastResponses[1] =
              IF lastStep.stateAtReply.exited THEN [kind |-> "threads", threads |-> <<>>]
              ELSE IF lastStep.listReply.err THEN [kind |-> "error2003", threads |-> <<>>]
              ELSE [kind |-> "threads", threads |-> lastStep.listReply.goroutines]

\* ----------------------------------------------------------------------
\* Test commands and lastTestConfig
\* ----------------------------------------------------------------------
\* vscode.window.activeTextEditor as a command finds it
Editors == {"none", "test", "other"}     \* no editor, a _test.go file, another file
NoConfig == [cmd |-> "none", n |-> 0]    \* lastTestConfig undefined
TestConfigOf(cmd, n) == [cmd |-> cmd, n |-> n]

NoMessage == "none"
TestStep(kind, ran, msg) ==
    [kind |-> kind, before |-> lastTestConfig, ran |-> ran, message |-> msg]

\* "lastTestConfig = testConfig; goTest(testConfig)" of the four commands
RememberAndRun(kind, cfg) ==
    /\ lastTestConfig' = cfg
    /\ lastRunByCommand' = cfg
    /\ lastTestStep' = TestStep(kind, cfg, NoMessage)

\* a return before any test runs, after showing msg
AbortTest(kind, msg) ==
    /\ lastTestStep' = TestStep(kind, NoConfig, msg)
    /\ UNCHANGED <<lastTestConfig, lastRunByCommand>>

CanInvokeTest == testCmdCount < MaxTestCmds

testAtCursor(editor, dirty, hasFunctionArg) ==
    /\ CanInvokeTest
    /\ testCmdCount' = testCmdCount + 1
    /\ IF editor = "none"
       THEN AbortTest("testAtCursor", "No editor is active.") /\ UNCHANGED testLookups
       ELSE IF editor # "test"
       THEN AbortTest("testAtCursor", "No tests found. Current file is not a test file.")
            /\ UNCHANGED testLookups
       ELSE IF dirty
       THEN AbortTest("testAtCursor", "File has unsaved changes. Save and try again.")
            /\ UNCHANGED testLookups
       ELSE /\ testLookups' = testLookups \cup
                {[cmd |-> "testAtCursor", n |-> testCmdCount + 1, arg |-> hasFunctionArg]}
            /\ lastTestStep' = TestStep("testAtCursor", NoConfig, NoMessage)
            /\ UNCHANGED <<lastTestConfig, lastRunByCommand>>
    /\ UNCHANGED notTest

\* getTestFunctions resolved for testAtCursor; atCursor: some test function
\* contains the selection.
AtCursorEager(l, atCursor) ==
    /\ l \in testLookups /\ l.cmd = "testAtCursor"
    /\ testLookups' = testLookups \ {l}
    /\ IF l.arg \/ atCursor
       THEN RememberAndRun("testAtCursor.then", TestConfigOf("testAtCursor", l.n))
       ELSE /\ lastTestConfig' = TestConfigOf("testAtCursor", l.n)
            /\ lastTestStep' = TestStep("testAtCursor.then", NoConfig, "No test function found at cursor.")
            /\ UNCHANGED lastRunByCommand
    /\ UNCHANGED <<testCmdCount, notTest>>

AtCursorLookupResolved(l, atCursor) ==
    /\ l \in testLookups /\ l.cmd = "testAtCursor"
    /\ testLookups' = testLookups \ {l}
    /\ IF l.arg \/ atCursor
       THEN RememberAndRun("testAtCursor.then", TestConfigOf("testAtCursor", l.n))
       ELSE AbortTest("testAtCursor.then", "No test function found at cursor.")
    /\ UNCHANGED <<testCmdCount, notTest>>

testCurrentFile(editor) ==
    /\ CanInvokeTest
    /\ testCmdCount' = testCmdCount + 1
    /\ IF editor = "none"
       THEN AbortTest("testCurrentFile", "No editor is active.") /\ UNCHANGED testLookups
       ELSE IF editor # "test"
       THEN AbortTest("testCurrentFile", "No tests found. Current file is not a test file.")
            /\ UNCHANGED testLookups
       ELSE /\ testLookups' = testLookups \cup
                {[cmd |-> "testCurrentFile", n |-> testCmdCount + 1, arg |-> FALSE]}
            /\ lastTestStep' = TestStep("testCurrentFile", NoConfig, NoMessage)
            /\ UNCHANGED <<lastTestConfig, lastRunByCommand>>
    /\ UNCHANGED notTest

\* getTestFunctions resolved for testCurrentFile: every function found runs
CurrentFileLookupResolved(l) ==
    /\ l \in testLookups /\ l.cmd = "testCurrentFile"
    /\ testLookups' = testLookups \ {l}
    /\ RememberAndRun("testCurrentFile.then", TestConfigOf("testCurrentFile", l.n))
    /\ UNCHANGED <<testCmdCount, notTest>>

\* getTestFunctions rejected: the error is logged, nothing runs
LookupRejected(l) ==
    /\ l \in testLookups
    /\ testLookups' = testLookups \ {l}
    /\ AbortTest("lookup.rejected", NoMessage)
    /\ UNCHANGED <<testCmdCount, notTest>>

testCurrentPackage(editor) ==
    /\ CanInvokeTest
    /\ testCmdCount' = testCmdCount + 1
    /\ IF editor = "none"
       THEN AbortTest("testCurrentPackage", "No editor is active.")
       ELSE RememberAndRun("testCurrentPackage", TestConfigOf("testCurrentPackage", testCmdCount + 1))
    /\ UNCHANGED <<testLookups, notTest>>

testWorkspace ==
    /\ CanInvokeTest
    /\ testCmdCount' = testCmdCount + 1
    /\ RememberAndRun("testWorkspace", TestConfigOf("testWorkspace", testCmdCount + 1))
    /\ UNCHANGED <<testLookups, notTest>>

testPrevious ==
    /\ CanInvokeTest
    /\ testCmdCount' = testCmdCount + 1
    /\ IF lastTestConfig = NoConfig
       THEN lastTestStep' = TestStep("testPrevious", NoConfig, "No test has been recently executed.")
       ELSE lastTestStep' = TestStep("testPrevious", lastTestConfig, NoMessage)
    /\ UNCHANGED <<lastTestConfig, lastRunByCommand, testLookups, notTest>>

InitTest ==
    /\ lastTestConfig = NoConfig
    /\ testLookups = {}
    /\ testCmdCount = 0
    /\ lastRunByCommand = NoConfig
    /\ lastTestStep = [kind |-> "none", before |-> NoConfig, ran |-> NoConfig, message |-> NoMessage]

NextTest ==
    \/ \E e \in Editors, d \in BOOLEAN, a \in BOOLEAN : testAtCursor(e, d, a)
    \/ \E l \in testLookups, c \in BOOLEAN : AtCursorLookupResolved(l, c)
    \/ \E e \in Editors : testCurrentFile(e)
    \/ \E l \in testLookups : CurrentFileLookupResolved(l)
    \/ \E l \in testLookups : LookupRejected(l)
    \/ \E e \in Editors : testCurrentPackage(e)
    \/ testWorkspace
    \/ testPrevious

\* the messages with which a command gives up before running a test
AbortMessages ==
    {"No editor is active.", "No tests found. Current file is not a test file.",
     "File has unsaved changes. Save and try again.", "No test function found at cursor."}

\* C3: lastTestConfig is the TestConfig most recently passed to goTest by
\* one of the four test commands, under every interleaving; testPrevious
\* runs goTest with exactly it and leaves it alone; a command that aborts
\* leaves it alone and runs nothing; with no test run yet testPrevious shows
\* 'No test has been recently executed.' and runs nothing.
C3_LastTestConfigIsLastRun ==
    /\ lastTestConfig = lastRunByCommand
    /\ lastTestStep.kind = "testPrevious" =>
          /\ lastTestConfig = lastTestStep.before
          /\ lastTestStep.ran = lastTestStep.before
          /\ (lastTestStep.before = NoConfig) =
                (lastTestStep.message = "No test has been recently executed.")
    /\ lastTestStep.message \in AbortMessages =>
          /\ lastTestConfig = lastTestStep.before
          /\ lastTestStep.ran = NoConfig

\* testPrevious re-ran a config while a later testAtCursor lookup was still
\* pending, and that lookup then found no test function at the cursor
C3_Witness ==
    /\ lastTestStep.kind = "testAtCursor.then"
    /\ lastTestStep.message = "No test function found at cursor."
    /\ lastTestConfig # NoConfig
    /\ lastTestConfig.n < testCmdCount - 1

\* testPrevious ran the remembered config
C3_WitnessPrevious ==
    /\ lastTestStep.kind = "testPrevious"
    /\ lastTestStep.ran # NoConfig

\* ----------------------------------------------------------------------
\* Binary path cache
\* ----------------------------------------------------------------------
Tools == {"guru"}
\* workspaces that may be passed as preferred paths
Workspaces == {"A", "B"}
\* process.env['PATH'] and process.env['M2ROOT'], split at the delimiter
EnvPATH == <<"P">>
EnvM2ROOT == <<"R">>

correctBinname(binname) == binname \o "_linux"
\* path.join(dir, appendBinToPath ? 'bin' : '', toolName)
JoinBin(dir, appendBinToPath, toolName) ==
    <<IF appendBinToPath THEN dir \o "/bin" ELSE dir, toolName>>
\* the bare binary name, returned when nothing was found
BareName(binname) == <<"", binname>>
NoPath == <<"", "">>

BinFolders == {w \o "/bin" : w \in Workspaces} \cup {"P", "R/bin"}
AllBinFiles == {<<d, correctBinname(t)>> : d \in BinFolders, t \in Tools}

fileExists(filePath) == filePath \in binFiles

RECURSIVE FirstExisting(_, _, _, _)
\* getBinPathFromEnvVar's loop from index i: the first existing candidate
FirstExisting(toolName, paths, appendBinToPath, i) ==
    IF i > Len(paths) THEN NoPath
    ELSE IF fileExists(JoinBin(paths[i], appendBinToPath, toolName))
    THEN JoinBin(paths[i], appendBinToPath, toolName)
    ELSE FirstExisting(toolName, paths, appendBinToPath, i + 1)

\* getBinPathFromEnvVar's return value (NoPath for null); an empty or
\* non-string value is the empty list of paths
getBinPathFromEnvVar(binname, envVarValue, appendBinToPath) ==
    FirstExisting(correctBinname(binname), envVarValue, appendBinToPath, 1)

RECURSIVE FromPreferred(_, _, _)
FromPreferred(binname, preferredGopaths, i) ==
    IF i > Len(preferredGopaths) THEN NoPath
    ELSE IF getBinPathFromEnvVar(binname, preferredGopaths[i], TRUE) # NoPath
    THEN getBinPathFromEnvVar(binname, preferredGopaths[i], TRUE)
    ELSE FromPreferred(binname, preferredGopaths, i + 1)

\* the search of getBinPathWithPreferredMonkey2path below its cache check
SearchBinPath(binname, preferredGopaths) ==
    IF FromPreferred(binname, preferredGopaths, 1) # NoPath
    THEN FromPreferred(binname, preferredGopaths, 1)
    ELSE IF getBinPathFromEnvVar(binname, EnvPATH, FALSE) # NoPath
    THEN getBinPathFromEnvVar(binname, EnvPATH, FALSE)
    ELSE IF getBinPathFromEnvVar(binname, EnvM2ROOT, TRUE) # NoPath
    THEN getBinPathFromEnvVar(binname, EnvM2ROOT, TRUE)
    ELSE BareName(binname)

PreferredEntries == {<<>>} \cup {<<w>> : w \in Workspaces}
PreferredLists == SeqsUpTo(PreferredEntries, MaxPreferred)

getBinPathWithPreferredMonkey2path(binname, preferredGopaths) ==
    /\ lookupCount < MaxLookups
    /\ lookupCount' = lookupCount + 1
    /\ LET key == correctBinname(binname)
           found == SearchBinPath(binname, preferredGopaths)
           result == IF binPathCache[key] # NoPath THEN binPathCache[key] ELSE found
       IN /\ binPathCache' =
                IF binPathCache[key] = NoPath /\ found # BareName(binname)
                THEN [binPathCache EXCEPT ![key] = found]
                ELSE binPathCache
          /\ lastLookup' = [binname |-> binname, preferred |-> preferredGopaths,
                            result |-> result, searched |-> found]
    /\ UNCHANGED <<binFiles, fsChanges, notPath>>

clearCacheForTools ==
    /\ binPathCache # [k \in {correctBinname(t) : t \in Tools} |-> NoPath]
    /\ binPathCache' = [k \in {correctBinname(t) : t \in Tools} |-> NoPath]
    /\ UNCHANGED <<binFiles, lastLookup, lookupCount, fsChanges, notPath>>

\* a tool binary is installed into, or removed from, one of the folders
BinaryAppears(f) ==
    /\ fsChanges < MaxFsChanges
    /\ f \in AllBinFiles \ binFiles
    /\ binFiles' = binFiles \cup {f}
    /\ fsChanges' = fsChanges + 1
    /\ UNCHANGED <<binPathCache, lastLookup, lookupCount, notPath>>

BinaryRemoved(f) ==
    /\ fsChanges < MaxFsChanges
    /\ f \in binFiles
    /\ binFiles' = binFiles \ {f}
    /\ fsChanges' = fsChanges + 1
    /\ UNCHANGED <<binPathCache, lastLookup, lookupCount, notPath>>

InitPath ==
    /\ binPathCache = [k \in {correctBinname(t) : t \in Tools} |-> NoPath]
    /\ binFiles = {}
    /\ lastLookup = [binname |-> "", preferred |-> <<>>, result |-> NoPath, searched |-> NoPath]
    /\ lookupCount = 0
    /\ fsChanges = 0

NextPath ==
    \/ \E t \in Tools, ps \in PreferredLists : getBinPathWithPreferredMonkey2path(t, ps)
    \/ clearCacheForTools
    \/ \E f \in AllBinFiles : BinaryAppears(f)
    \/ \E f \in AllBinFiles : BinaryRemoved(f)

\* C4: the path a lookup returns equals the path a search without the
\* cache returns at that moment for the same tool and preferred paths.
C4_CacheMirrorsSearch == lastLookup.result = lastLookup.searched

\* ----------------------------------------------------------------------
\* Coverage range map
\* ----------------------------------------------------------------------
CoverCallIds == 1..MaxCoverCalls
\* a profile line: one that the pattern does not match ("mode: set"), or
\* filename:StartLine.StartColumn,EndLine.EndColumn Hits IsCovered
NoMatchLine == [matches |-> FALSE, file |-> "", startLine |-> 0, isCovered |-> 0]
RangeLines ==
    [matches : {TRUE}, file : Files, startLine : 1..MaxStartLine, isCovered : {0, 1}]
ProfileLines == {NoMatchLine} \cup RangeLines
Profiles == SeqsUpTo(ProfileLines, MaxProfileLines)

\* new vscode.Range(parseInt(StartLine) - 1, ...): zero based
RangeOf(line) == line.startLine - 1

EmptyCoverage == [coveredRange |-> <<>>, uncoveredRange |-> <<>>]
\* coverageFiles = {}: a file without ranges has no entry
NoCoverage == [f \in Files |-> EmptyCoverage]

\* the 'line' handler applied to a map
AddLine(map, line) ==
    IF ~line.matches THEN map
    ELSE IF line.isCovered = 1
    THEN [map EXCEPT ![line.file].coveredRange = Append(@, RangeOf(line))]
    ELSE [map EXCEPT ![line.file].uncoveredRange = Append(@, RangeOf(line))]

\* overlapped: another call was reading while this one was
IdleCall == [state |-> "idle", profile |-> <<>>, pos |-> 0, overlapped |-> FALSE]
Reading(c) == coverCalls[c].state = "reading"

\* The keys of the map are the file fields of a profile; a.go and b.go
\* abbreviate the texts below, the second being a file outside the
\* workspace folders, which the profile names with a leading '_'.
FileName(f) == IF f = "a.go" THEN <<"pkg/", "a.go">> ELSE <<"_", "/w/", "b.go">>
\* fsPath of the documents an editor can show
EditorPaths == {<<"/g/", "pkg/", "a.go">>, <<"/w/", "b.go">>, <<"/w/", "c.go">>}
EditorSlots == 1..MaxEditors

\* String.prototype.endsWith and startsWith('_')
endsWith(text, suffix) ==
    /\ Len(suffix) <= Len(text)
    /\ SubSeq(text, Len(text) - Len(suffix) + 1, Len(text)) = suffix
startsWithUnderscore(text) == Len(text) > 0 /\ text[1] = "_"

\* for (let filename in coverageFiles)
HasEntry(f) == coverageFiles[f] # EmptyCoverage
\* found, as applyCoverage, removeCodeCoverage and the toggle compute it
FoundFor(fsPath, f) ==
    \/ endsWith(fsPath, FileName(f))
    \/ startsWithUnderscore(FileName(f)) /\ endsWith(fsPath, Tail(FileName(f)))
\* vscode.window.visibleTextEditors.find(...): the first match, 0 if none
FirstEditorFor(f) ==
    IF \E i \in DOMAIN visibleEditors : FoundFor(visibleEditors[i], f)
    THEN CHOOSE i \in DOMAIN visibleEditors :
            /\ FoundFor(visibleEditors[i], f)
            /\ \A j \in DOMAIN visibleEditors : FoundFor(visibleEditors[j], f) => i <= j
    ELSE 0
\* highlightCoverage(editor, file, remove) with both kinds of range shown
Highlight(file, remove) == IF remove THEN EmptyCoverage ELSE file
\* applyCoverage(remove): for every entry, the first visible editor of
\* its file; no path of EditorPaths is found for two entries
applyCoverage(remove) ==
    decorations' = [e \in EditorSlots |->
        IF \E f \in Files : HasEntry(f) /\ FirstEditorFor(f) = e
        THEN Highlight(coverageFiles[CHOOSE f \in Files : HasEntry(f) /\ FirstEditorFor(f) = e],
                       remove)
        ELSE decorations[e]]

clearCoverage ==
    /\ applyCoverage(TRUE)
    /\ coverageFiles' = NoCoverage

\* the synchronous part of getCoverage
StartReading(c, profile) ==
    /\ coverCalls[c].state = "idle"
    /\ \A d \in CoverCallIds : d < c => coverCalls[d].state # "idle"
    /\ clearCoverage
    /\ coverCalls' = [d \in CoverCallIds |->
            IF d = c
            THEN [state |-> "reading", profile |-> profile, pos |-> 1,
                  overlapped |-> \E e \in CoverCallIds : Reading(e)]
            ELSE IF Reading(d) THEN [coverCalls[d] EXCEPT !.overlapped = TRUE]
            ELSE coverCalls[d]]
    /\ UNCHANGED lastResolved

getCoverage(c, profile) == StartReading(c, profile) /\ UNCHANGED notCover

\* lines.on('line', ...)
LineEvent(c) ==
    /\ Reading(c)
    /\ coverCalls[c].pos <= Len(coverCalls[c].profile)
    /\ coverageFiles' = AddLine(coverageFiles, coverCalls[c].profile[coverCalls[c].pos])
    /\ coverCalls' = [coverCalls EXCEPT ![c].pos = @ + 1]
    /\ UNCHANGED <<decorations, lastResolved, notCover>>

\* lines.on('close', ...): applyCoverage() and resolve([])
CloseEvent(c) ==
    /\ Reading(c)
    /\ coverCalls[c].pos > Len(coverCalls[c].profile)
    /\ applyCoverage(FALSE)
    /\ coverCalls' = [coverCalls EXCEPT ![c].state = "resolved"]
    /\ lastResolved' = [call |-> c, profile |-> coverCalls[c].profile,
                        map |-> coverageFiles,
                        overlapped |-> coverCalls[c].overlapped]
    /\ UNCHANGED <<coverageFiles, notCover>>

InitCover ==
    /\ coverageFiles = NoCoverage
    /\ decorations = [e \in EditorSlots |-> EmptyCoverage]
    /\ coverCalls = [c \in CoverCallIds |-> IdleCall]
    /\ lastResolved = [call |-> 0, profile |-> <<>>, map |-> NoCoverage, overlapped |-> FALSE]

NextCover ==
    \/ \E c \in CoverCallIds, profile \in Profiles : getCoverage(c, profile)
    \/ \E c \in CoverCallIds : LineEvent(c)
    \/ \E c \in CoverCallIds : CloseEvent(c)

RECURSIVE ProfileMap(_, _)
\* the map a profile describes: one range per matching line among its first n
ProfileMap(profile, n) ==
    IF n = 0 THEN NoCoverage ELSE AddLine(ProfileMap(profile, n - 1), profile[n])

\* C5: when a getCoverage call resolves, the map holds exactly one range
\* per matching line of its profile, covered when the last field is 1
\* and uncovered otherwise, and nothing from another profile.
C5_CoverageMirrorsProfile ==
    lastResolved.call # 0 =>
        lastResolved.map = ProfileMap(lastResolved.profile, Len(lastResolved.profile))

\* The same for a call during which no other call was reading.
C5_NoOverlapMirrors ==
    (lastResolved.call # 0 /\ ~lastResolved.overlapped) =>
        lastResolved.map = ProfileMap(lastResolved.profile, Len(lastResolved.profile))

\* ----------------------------------------------------------------------
\* Cached tool version
\* ----------------------------------------------------------------------
VersionCallIds == 1..MaxVersionCalls
\* let goVersion: SemVersion = null
NoVersion == [isNull |-> TRUE, major |-> 0, minor |-> 0]
SemVersion(major, minor) == [isNull |-> FALSE, major |-> major, minor |-> minor]

\* what the binary prints: "go version go<major>.<minor digits>..." or
\* text without a release tag (also the empty output of a failed run)
TaggedOutput(major, minorDigits) ==
    [tagged |-> TRUE, major |-> major, minorDigits |-> minorDigits]
UntaggedOutput == [tagged |-> FALSE, major |-> 0, minorDigits |-> <<>>]
VersionOutputs ==
    {TaggedOutput(1, <<6>>), TaggedOutput(1, <<1, 0>>), TaggedOutput(2, <<0>>), UntaggedOutput}

\* /go version go(\d).(\d).*/ with parseInt of the two groups: each
\* group is one digit
ParseVersion(stdout) ==
    IF stdout.tagged THEN SemVersion(stdout.major, stdout.minorDigits[1]) ELSE NoVersion

\* getMonkey2RuntimePath() returns a path
RuntimeFound == runtimePathCache \/ runtimeExists

NoOutput == UntaggedOutput
\* overlapped: another call was running the binary while this one was
IdleVersionCall == [state |-> "idle", overlapped |-> FALSE]
Running(c) == versionCalls[c].state = "running"
Resolve(c) == [versionCalls EXCEPT ![c].state = "resolved"]
VersionStep(c, kind, ran, resolved, stdout, msg) ==
    [call |-> c, kind |-> kind, ran |-> ran, resolved |-> resolved,
     before |-> goVersion, found |-> RuntimeFound, stdout |-> stdout, message |-> msg,
     overlapped |-> versionCalls[c].overlapped \/ \E d \in VersionCallIds : Running(d)]

\* getGoVersion() up to its return
GetVersion(c) ==
    /\ versionCalls[c].state = "idle"
    /\ \A d \in VersionCallIds : d < c => versionCalls[d].state # "idle"
    /\ runtimePathCache' = RuntimeFound
    /\ IF ~RuntimeFound
       THEN /\ versionCalls' = Resolve(c)
            /\ lastVersionStep' = VersionStep(c, "call", FALSE, NoVersion, NoOutput,
                                      "Cannot find mx2cc binary")
       ELSE IF ~goVersion.isNull
       THEN /\ versionCalls' = Resolve(c)
            /\ lastVersionStep' = VersionStep(c, "call", FALSE, goVersion, NoOutput, NoMessage)
       ELSE /\ versionCalls' = [d \in VersionCallIds |->
                    IF d = c
                    THEN [state |-> "running", overlapped |-> \E e \in VersionCallIds : Running(e)]
                    ELSE IF Running(d) THEN [versionCalls[d] EXCEPT !.overlapped = TRUE]
                    ELSE versionCalls[d]]
            /\ lastVersionStep' = VersionStep(c, "call", TRUE, NoVersion, NoOutput, NoMessage)
    /\ UNCHANGED <<goVersion, runtimeExists, runtimeChanges>>

getGoVersion(c) == GetVersion(c) /\ UNCHANGED notVersion

\* the execFile callback up to resolve(goVersion)
VersionParsed(c, stdout) ==
    /\ Running(c)
    /\ goVersion' = IF stdout.tagged THEN ParseVersion(stdout) ELSE goVersion
    /\ versionCalls' = Resolve(c)
    /\ lastVersionStep' = VersionStep(c, "callback", FALSE, goVersion', stdout, NoMessage)
    /\ UNCHANGED <<runtimePathCache, runtimeExists, runtimeChanges>>

VersionCallback(c, stdout) == VersionParsed(c, stdout) /\ UNCHANGED notVersion

\* the runtime binary is installed or removed
RuntimeChanges ==
    /\ runtimeChanges < MaxRuntimeChanges
    /\ runtimeChanges' = runtimeChanges + 1
    /\ runtimeExists' = ~runtimeExists
    /\ UNCHANGED <<goVersion, runtimePathCache, versionCalls, lastVersionStep, notVersion>>

InitVersion ==
    /\ goVersion = NoVersion
    /\ runtimePathCache = FALSE
    /\ runtimeExists = FALSE
    /\ runtimeChanges = 0
    /\ versionCalls = [c \in VersionCallIds |-> IdleVersionCall]
    /\ lastVersionStep = [call |-> 0, kind |-> "none", ran |-> FALSE, resolved |-> NoVersion,
                          before |-> NoVersion, found |-> FALSE, stdout |-> NoOutput,
                          message |-> NoMessage, overlapped |-> FALSE]

NextVersion ==
    \/ \E c \in VersionCallIds : getGoVersion(c)
    \/ \E c \in VersionCallIds, stdout \in VersionOutputs : VersionCallback(c, stdout)
    \/ RuntimeChanges

\* what C6 says of one step of a getGoVersion call
VersionStepAsClaimed(step) ==
    \* a call made once a version is cached resolves with it, runs nothing
    /\ (step.kind = "call" /\ step.found /\ ~step.before.isNull) =>
          (step.resolved = step.before /\ ~step.ran)
    \* the runtime binary cannot be found: null, nothing run
    /\ (step.kind = "call" /\ ~step.found) =>
          (step.resolved = NoVersion /\ ~step.ran /\ goVersion = step.before)
    \* nothing cached yet: the binary is run
    /\ (step.kind = "call" /\ step.found /\ step.before.isNull) => step.ran
    \* output with a release tag: the parsed version is cached and resolved
    /\ (step.kind = "callback" /\ step.stdout.tagged) =>
          (step.resolved = ParseVersion(step.stdout) /\ goVersion = step.resolved)
    \* output without a release tag: null, nothing cached
    /\ (step.kind = "callback" /\ ~step.stdout.tagged) =>
          (step.resolved = NoVersion /\ goVersion = step.before)

\* C6: a version is cached only from a successful parse; once cached,
\* later calls resolve with it and run nothing; output without a
\* release tag resolves null and caches nothing; a missing runtime
\* binary resolves null and runs nothing.
C6_VersionCachedFromParse == VersionStepAsClaimed(lastVersionStep)

\* The same for the steps of a call during which no other call was running.
C6_NoOverlapCached ==
    ~lastVersionStep.overlapped => VersionStepAsClaimed(lastVersionStep)

\* ----------------------------------------------------------------------
\* provideImplementation and cancellation
\* ----------------------------------------------------------------------
ImplCallIds == 1..MaxImplCalls

\* a child process started with execFile:
\*   "none"     not started
\*   "running"
\*   "exitedOk" exited with status 0 and JSON on stdout, callback not yet run
\*   "exitedBad" exited with status 0 and other output, callback not yet run
\*   "failed"   exited with an error, callback not yet run
\*   "enoent"   could not be started, callback not yet run
\*   "killed"   terminated by kill(), callback not yet run
\*   "done"     callback has run
ExitOutcomes == {"exitedOk", "exitedBad", "failed"}
AwaitingCallback == ExitOutcomes \cup {"enoent", "killed"}

\* promise: "none" (not called), "pending", "null", "results", "rejected"
\* cancelledWhen: where the call was when cancellation was requested
NewImplCall ==
    [promise |-> "none", token |-> FALSE, list |-> "none", guru |-> "none",
     guruListener |-> "none", threw |-> FALSE, cancelledWhen |-> "never"]

\* ChildProcess.kill(): only a running process is affected
kill(proc) == IF proc = "running" THEN "killed" ELSE proc

provideImplementation(c) ==
    /\ impl[c].promise = "none"
    /\ impl' = [impl EXCEPT ![c] =
            IF impl[c].token
            THEN [@ EXCEPT !.promise = "null", !.cancelledWhen = "atCall"]
            ELSE [@ EXCEPT !.promise = "pending", !.list = "running"]]
    /\ UNCHANGED notImpl

\* a running child process ends by itself
ListExits(c, outcome) ==
    /\ impl[c].list = "running"
    /\ impl' = [impl EXCEPT ![c].list = outcome]
    /\ UNCHANGED notImpl

GuruExits(c, outcome) ==
    /\ impl[c].guru = "running"
    /\ impl' = [impl EXCEPT ![c].guru = outcome]
    /\ UNCHANGED notImpl

\* the callback of the package-list process
ListCallback(c, guruStarts) ==
    /\ impl[c].list \in AwaitingCallback
    /\ impl' = [impl EXCEPT ![c] =
            IF impl[c].list # "exitedOk" /\ impl[c].list # "exitedBad"
            THEN [@ EXCEPT !.list = "done", !.promise = "rejected"]
            ELSE IF impl[c].list = "exitedBad"
            THEN [@ EXCEPT !.list = "done", !.threw = TRUE]
            ELSE [@ EXCEPT !.list = "done",
                           !.guru = IF guruStarts THEN "running" ELSE "enoent",
                           \* a listener added to a cancelled token is
                           \* called by the host on a later turn
                           !.guruListener = IF impl[c].token THEN "late" ELSE "registered"]]
    /\ UNCHANGED notImpl

\* the callback of the guru process
GuruCallback(c) ==
    /\ impl[c].guru \in AwaitingCallback
    /\ impl' = [impl EXCEPT ![c] =
            IF impl[c].guru = "enoent"
            THEN [@ EXCEPT !.guru = "done", !.promise = "null"]
            ELSE IF impl[c].guru \in {"failed", "killed"}
            THEN [@ EXCEPT !.guru = "done", !.promise = "rejected"]
            ELSE IF impl[c].guru = "exitedBad"
            THEN [@ EXCEPT !.guru = "done", !.threw = TRUE]
            ELSE [@ EXCEPT !.guru = "done", !.promise = "results"]]
    /\ UNCHANGED notImpl

\* where call c is when its token is cancelled
CancelMoment(c) ==
    IF impl[c].promise = "none" THEN "beforeCall"
    ELSE IF impl[c].list = "running" THEN "duringList"
    ELSE IF impl[c].guru = "running" THEN "duringGuru"
    ELSE "other"

\* the host cancels the token, the guru listener being absent
CancelTokenListOnly(c) ==
    /\ ~impl[c].token
    /\ impl' = [impl EXCEPT ![c] =
            [@ EXCEPT !.token = TRUE,
                      !.cancelledWhen = CancelMoment(c),
                      !.list = kill(@)]]
    /\ UNCHANGED notImpl

\* the host cancels the token: the registered listeners run
CancelToken(c) ==
    /\ ~impl[c].token
    /\ impl' = [impl EXCEPT ![c] =
            [@ EXCEPT !.token = TRUE,
                      !.cancelledWhen = CancelMoment(c),
                      !.guru = IF impl[c].guruListener = "registered" THEN kill(@) ELSE @,
                      !.list = kill(@)]]
    /\ UNCHANGED notImpl

\* the guru listener that was added to an already cancelled token runs
LateGuruListener(c) ==
    /\ impl[c].guruListener = "late"
    /\ impl' = [impl EXCEPT ![c] =
            [@ EXCEPT !.guruListener = "called", !.guru = kill(@)]]
    /\ UNCHANGED notImpl

InitImpl == impl = [c \in ImplCallIds |-> NewImplCall]

NextImpl ==
    \/ \E c \in ImplCallIds : provideImplementation(c)
    \/ \E c \in ImplCallIds, outcome \in ExitOutcomes : ListExits(c, outcome)
    \/ \E c \in ImplCallIds, outcome \in ExitOutcomes : GuruExits(c, outcome)
    \/ \E c \in ImplCallIds, guruStarts \in BOOLEAN : ListCallback(c, guruStarts)
    \/ \E c \in ImplCallIds : GuruCallback(c)
    \/ \E c \in ImplCallIds : CancelToken(c)
    \/ \E c \in ImplCallIds : LateGuruListener(c)

\* callbacks of ended processes and pending listeners are run by the event loop
ImplFairness ==
    \A c \in ImplCallIds :
        /\ WF_vars(\E g \in BOOLEAN : ListCallback(c, g))
        /\ WF_vars(GuruCallback(c))
        /\ WF_vars(LateGuruListener(c))

Settled(c) == impl[c].promise \in {"null", "results", "rejected"}

ForwardedSafely(c) ==
    \* cancelled before the call: null, no process
    /\ (impl[c].token /\ impl[c].promise # "none" /\ impl[c].cancelledWhen \in {"beforeCall", "atCall"}) =>
          (impl[c].promise = "null" /\ impl[c].list = "none" /\ impl[c].guru = "none")
    \* cancelled while the package list ran: it is killed, guru never started
    /\ impl[c].cancelledWhen = "duringList" =>
          (impl[c].list \in {"killed", "done"} /\ impl[c].guru = "none"
           /\ impl[c].promise \in {"pending", "rejected"})
    \* cancelled while guru ran: it is killed
    /\ impl[c].cancelledWhen = "duringGuru" =>
          (impl[c].guru \in {"killed", "done"} /\ impl[c].promise \in {"pending", "rejected"})

\* C7: a token cancelled before the call gives null and no process; a
\* cancellation while the package-list process runs kills it and guru
\* is never started; a cancellation while guru runs kills guru; and in
\* each of these cases the promise eventually settles.
C7_CancellationForwarded ==
    /\ [](\A c \in ImplCallIds : ForwardedSafely(c))
    /\ \A c \in ImplCallIds :
          (impl[c].promise # "none" /\ impl[c].cancelledWhen \in {"beforeCall", "atCall", "duringList", "duringGuru"})
              ~> Settled(c)

C7_Witness ==
    \E c, d \in ImplCallIds :
        /\ impl[c].cancelledWhen = "duringList" /\ impl[c].promise = "rejected"
        /\ impl[d].cancelledWhen = "duringGuru" /\ impl[d].promise = "rejected"

\* ----------------------------------------------------------------------
\* runTool
\* ----------------------------------------------------------------------
\* A tool's output is the list of its lines, as split('\n') gives them;
\* the empty string is the single empty line. A line is one of
\*   ""        the empty line
\*   "text"    text the pattern does not match
\*   "tab"     text that starts with a tab and that the pattern does not match
\*   "match"   file:line: message, file outside a vendor folder
\*   "vendor"  file:line: message, file in a vendor folder
LineKinds == {"", "text", "tab", "match", "vendor"}
EmptyOutput == <<"">>
Outputs == SeqsUpTo(LineKinds, MaxOutputLines) \ {<<>>}
\* a string in a condition: true unless empty
NonEmpty(text) == text # EmptyOutput

\* err of the execFile callback
ExecErrors == {"none", "ENOENT", "exit"}
Severities == {"error", "warning"}
ActiveFile == "active.go"

\* { file, line, msg, severity } for a matched line (path.resolve(cwd, file))
MatchResult(severity) ==
    [file |-> "cwd/file.go", line |-> 2, msg |-> <<"match">>, severity |-> severity]
\* the result pushed for unexpected output
UnexpectedResult(stderr) ==
    [file |-> ActiveFile, line |-> 1, msg |-> stderr, severity |-> "error"]

Matches(line) == line \in {"match", "vendor"}
StartsWithTab(line) == line = "tab"

\* ret[ret.length - 1].msg += '\n' + line
AppendToLast(ret, line) ==
    [ret EXCEPT ![Len(ret)].msg = Append(@, line)]

RECURSIVE ScanLines(_, _, _, _)
\* the for loop from line i with the loop state st = [ret, unexpectedOutput,
\* atleastSingleMatch]; marksUnexpected is
\* printUnexpectedOutput && useStdErr && stderr
ScanLines(lines, i, st, cfg) ==
    IF i > Len(lines) THEN st
    ELSE IF StartsWithTab(lines[i]) /\ Len(st.ret) > 0
    THEN ScanLines(lines, i + 1, [st EXCEPT !.ret = AppendToLast(@, lines[i])], cfg)
    ELSE IF ~Matches(lines[i])
    THEN ScanLines(lines, i + 1,
            [st EXCEPT !.unexpectedOutput = @ \/ cfg.marksUnexpected], cfg)
    ELSE IF lines[i] = "vendor"
    THEN ScanLines(lines, i + 1, [st EXCEPT !.atleastSingleMatch = TRUE], cfg)
    ELSE ScanLines(lines, i + 1,
            [st EXCEPT !.atleastSingleMatch = TRUE,
                       !.ret = Append(@, MatchResult(cfg.severity))], cfg)

\* the condition of the final push never holding
NeverPushes(st, editorActive, err) == FALSE

\* !atleastSingleMatch && unexpectedOutput && activeTextEditor, then err
PushesUnexpected(st, editorActive, err) ==
    ~st.atleastSingleMatch /\ st.unexpectedOutput /\ editorActive /\ err # "none"

\* what the execFile callback resolves with, and what it writes where
ToolOutcome(call, err, stdout, stderr, editorActive) ==
    IF err = "ENOENT"
    THEN [ret |-> <<>>, console |-> <<"Cannot find">>, notifications |-> <<>>]
    ELSE IF err # "none" /\ NonEmpty(stderr) /\ ~call.useStdErr
    THEN [ret |-> <<>>, console |-> <<>>, notifications |-> <<>>]
    ELSE LET lines == IF call.useStdErr THEN stderr ELSE stdout
             cfg == [severity |-> call.severity,
                     marksUnexpected |-> call.printUnexpectedOutput /\ call.useStdErr
                                            /\ NonEmpty(stderr)]
             st == ScanLines(lines, 1,
                     [ret |-> <<>>, unexpectedOutput |-> FALSE, atleastSingleMatch |-> FALSE],
                     cfg)
         IN [ret |-> IF PushesUnexpected(st, editorActive, err)
                     THEN Append(st.ret, UnexpectedResult(stderr))
                     ELSE st.ret,
             console |-> <<>>, notifications |-> <<>>]

NoToolOutcome == [ret |-> <<>>, console |-> <<>>, notifications |-> <<>>]

runTool(severity, useStdErr, printUnexpectedOutput) ==
    /\ toolRun.state = "idle"
    /\ toolRun' = [state |-> "running",
                   call |-> [severity |-> severity, useStdErr |-> useStdErr,
                             printUnexpectedOutput |-> printUnexpectedOutput],
                   err |-> "none", stdout |-> EmptyOutput, stderr |-> EmptyOutput,
                   editorActive |-> FALSE, outcome |-> NoToolOutcome]
    /\ UNCHANGED notTool

\* execFile's callback; a tool that was not found wrote nothing
ToolCallback(err, stdout, stderr, editorActive) ==
    /\ toolRun.state = "running"
    /\ err = "ENOENT" => (stdout = EmptyOutput /\ stderr = EmptyOutput)
    /\ toolRun' = [toolRun EXCEPT
            !.state = "resolved", !.err = err, !.stdout = stdout, !.stderr = stderr,
            !.editorActive = editorActive,
            !.outcome = ToolOutcome(toolRun.call, err, stdout, stderr, editorActive)]
    /\ UNCHANGED notTool

InitTool ==
    toolRun = [state |-> "idle",
               call |-> [severity |-> "error", useStdErr |-> FALSE,
                         printUnexpectedOutput |-> FALSE],
               err |-> "none", stdout |-> EmptyOutput, stderr |-> EmptyOutput,
               editorActive |-> FALSE, outcome |-> NoToolOutcome]

NextTool ==
    \/ \E severity \in Severities, useStdErr \in BOOLEAN, printUnexpectedOutput \in BOOLEAN :
          runTool(severity, useStdErr, printUnexpectedOutput)
    \/ /\ toolRun.state = "running"
       /\ \E err \in ExecErrors, stdout \in Outputs, stderr \in Outputs, editorActive \in BOOLEAN :
             ToolCallback(err, stdout, stderr, editorActive)

NoLineMatched(text) == \A i \in DOMAIN text : ~Matches(text[i])

\* the first two cases of C10
MissingOrFailedToolGivesNothing ==
    /\ toolRun.err = "ENOENT" =>
          (toolRun.outcome.ret = <<>> /\ toolRun.outcome.notifications = <<>>)
    /\ (toolRun.err = "exit" /\ NonEmpty(toolRun.stderr) /\ ~toolRun.call.useStdErr) =>
          toolRun.outcome.ret = <<>>

\* the third case of C10: its precondition as the claim gives it
UnexpectedOutputCase ==
    /\ toolRun.state = "resolved"
    /\ toolRun.call.printUnexpectedOutput /\ toolRun.call.useStdErr
    /\ NoLineMatched(toolRun.stderr)
    /\ toolRun.err = "exit"
    /\ toolRun.editorActive

OneErrorResultWithStderr ==
    toolRun.outcome.ret =
        <<[file |-> ActiveFile, line |-> 1, msg |-> toolRun.stderr, severity |-> "error"]>>

\* C10 as stated: a missing tool resolves with an empty list and no
\* notification; a failed tool that wrote to stderr while stdout is read
\* resolves with an empty list; with printUnexpectedOutput and useStdErr,
\* no matching line, an error exit and an active editor it resolves with
\* exactly one 'error' result at line 1 of the active file carrying stderr.
C10_ToolFailuresAsStated ==
    /\ MissingOrFailedToolGivesNothing
    /\ UnexpectedOutputCase => OneErrorResultWithStderr

\* C10 (amended): the same, the third case holding when stderr is not empty.
C10_ToolFailuresHandled ==
    /\ MissingOrFailedToolGivesNothing
    /\ (UnexpectedOutputCase /\ NonEmpty(toolRun.stderr)) => OneErrorResultWithStderr

C10_Witness ==
    /\ UnexpectedOutputCase /\ NonEmpty(toolRun.stderr)
    /\ Len(toolRun.stderr) = MaxOutputLines
    /\ toolRun.call.severity = "warning"
    /\ OneErrorResultWithStderr

\* ----------------------------------------------------------------------
\* installTools
\* ----------------------------------------------------------------------
InstallCallIds == 1..MaxInstallCalls
\* Object.keys(getTools(version)) with lintTool set to gometalinter
KnownTools == <<"guru", "gometalinter", "dlv">>
InstallLists == SeqsUpTo(Range(KnownTools), MaxInstallList)

IdleInstall ==
    [state |-> "idle", list |-> <<>>, started |-> <<>>, res |-> <<>>,
     message |-> NoMessage, failures |-> 0]

FailedCount(res) == Cardinality({i \in DOMAIN res : res[i]})

\* one link of the reduce chain: with every tool of the list done, the
\* final then() reports; otherwise execFile is called for the next tool
ChainStep(call, res) ==
    IF Len(res) = Len(call.list)
    THEN [call EXCEPT !.res = res, !.state = "reported",
                      !.failures = FailedCount(res),
                      !.message = IF FailedCount(res) = 0
                                  THEN "All tools successfully installed"
                                  ELSE "tools failed to install"]
    ELSE [call EXCEPT !.res = res,
                      !.started = Append(@, call.list[Len(res) + 1])]

\* every tool of the list started by the first step
StartsAllAtOnce(c, before, after) ==
    IF before.started = <<>>
    THEN {[call |-> c, tool |-> after.list[i], kind |-> "get"] : i \in DOMAIN after.list}
    ELSE {}

\* the child process a chain step has started, if any
StartedBy(c, before, after) ==
    IF Len(after.started) > Len(before.started)
    THEN {[call |-> c, tool |-> after.started[Len(after.started)], kind |-> "get"]}
    ELSE {}


installTools(c, missing, given, runtimeFound, gopathSet) ==
    /\ installs[c].state = "idle"
    /\ \A d \in InstallCallIds : d < c => installs[d].state # "idle"
    /\ LET list == IF given THEN missing ELSE KnownTools
           call == [IdleInstall EXCEPT !.list = list, !.state = "running"]
       IN IF ~runtimeFound
          THEN /\ installs' = [installs EXCEPT ![c] =
                     [call EXCEPT !.state = "refused", !.message = "Cannot find mx2cc binary"]]
               /\ UNCHANGED installChildren
          ELSE IF ~gopathSet
          THEN /\ installs' = [installs EXCEPT ![c] =
                     [call EXCEPT !.state = "refused", !.message = "Cannot install Go tools"]]
               /\ UNCHANGED installChildren
          ELSE /\ installs' = [installs EXCEPT ![c] = ChainStep(call, <<>>)]
               /\ installChildren' = installChildren \cup StartedBy(c, call, ChainStep(call, <<>>))
    /\ UNCHANGED notInstall

\* the callback of an install child process: `go get` of a tool, or
\* `gometalinter --install` after gometalinter's `go get` succeeded
InstallCallback(p, err) ==
    /\ p \in installChildren
    /\ LET call == installs[p.call]
           next == ChainStep(call, Append(call.res, err))
       IN IF ~err /\ p.kind = "get" /\ p.tool = "gometalinter"
          THEN /\ installChildren' = (installChildren \ {p}) \cup {[p EXCEPT !.kind = "linters"]}
               /\ UNCHANGED installs
          ELSE /\ installs' = [installs EXCEPT ![p.call] = next]
               /\ installChildren' = (installChildren \ {p}) \cup StartedBy(p.call, call, next)
    /\ UNCHANGED notInstall

InitInstall ==
    /\ installs = [c \in InstallCallIds |-> IdleInstall]
    /\ installChildren = {}

NextInstall ==
    \/ \E c \in InstallCallIds, missing \in InstallLists, given, runtimeFound, gopathSet \in BOOLEAN :
          installTools(c, missing, given, runtimeFound, gopathSet)
    \/ \E p \in installChildren, err \in BOOLEAN : InstallCallback(p, err)

ChildrenOf(c) == {p \in installChildren : p.call = c}

\* what C11 says of a call whose installation went ahead
InstallsOneAtATime(c) ==
    LET call == installs[c] IN
    /\ Cardinality(ChildrenOf(c)) <= 1
    /\ Len(call.started) <= Len(call.list)
    /\ call.started = SubSeq(call.list, 1, Len(call.started))
    /\ call.state = "running" =>
          (ChildrenOf(c) # {} /\ Len(call.started) = Len(call.res) + 1)
    /\ call.state = "reported" =>
          /\ ChildrenOf(c) = {}
          /\ call.started = call.list /\ Len(call.res) = Len(call.list)
          /\ call.failures = FailedCount(call.res)
          /\ (call.message = "All tools successfully installed") = (FailedCount(call.res) = 0)
          /\ (call.message = "tools failed to install") = (FailedCount(call.res) > 0)

PromptTools == {"guru", "golint"}
PromptKinds == {"install", "update"}
\* what the user can do with a prompt; "none" closes it without a choice
Selections == {"Install", "Install All", "Update", "none"}

\* the wrong list for each kind
DeclinedToolsSwapped(kind) ==
    IF kind = "install" THEN updatesDeclinedTools ELSE installsDeclinedTools

DeclinedTools(kind) ==
    IF kind = "install" THEN installsDeclinedTools ELSE updatesDeclinedTools

\* the body shared by promptForMissingTool and promptForUpdatingTool up to
\* the call of getMonkey2Version
PromptFor(kind, tool) ==
    /\ promptCount < MaxPrompts
    /\ promptCount' = promptCount + 1
    /\ lastPromptCall' = [kind |-> kind, tool |-> tool,
                          afterDismissal |-> <<kind, tool>> \in dismissed,
                          wentOn |-> tool \notin DeclinedTools(kind)]
    /\ prompts' = IF tool \in DeclinedTools(kind) THEN prompts
                  ELSE prompts \cup {[id |-> promptCount + 1, kind |-> kind, tool |-> tool,
                                      stage |-> "version"]}
    /\ UNCHANGED <<installsDeclinedTools, updatesDeclinedTools, dismissed, notPrompt>>

promptForMissingTool(tool) == PromptFor("install", tool)
promptForUpdatingTool(tool) == PromptFor("update", tool)

\* getMonkey2Version().then(...): the prompt is shown, or for golint with
\* a version below 1.6 an information message without buttons
VersionKnown(p, below16) ==
    /\ p \in prompts /\ p.stage = "version"
    /\ prompts' = (prompts \ {p}) \cup
          {[p EXCEPT !.stage = IF p.kind = "install" /\ below16 /\ p.tool = "golint"
                                THEN "information" ELSE "shown"]}
    /\ UNCHANGED <<installsDeclinedTools, updatesDeclinedTools, promptCount, dismissed,
                   lastPromptCall, notPrompt>>

\* showInformationMessage(...).then(selected => ...)
PromptAnswered(p, selected) ==
    /\ p \in prompts /\ p.stage = "shown"
    /\ selected = "Update" => p.kind = "update"
    /\ selected \in {"Install", "Install All"} => p.kind = "install"
    /\ prompts' = prompts \ {p}
    /\ LET declines == IF p.kind = "install"
                       THEN selected \notin {"Install", "Install All"}
                       ELSE selected # "Update"
       IN /\ installsDeclinedTools' =
                IF declines /\ p.kind = "install"
                THEN installsDeclinedTools \cup {p.tool} ELSE installsDeclinedTools
          /\ updatesDeclinedTools' =
                IF declines /\ p.kind = "update"
                THEN updatesDeclinedTools \cup {p.tool} ELSE updatesDeclinedTools
          /\ dismissed' = IF selected = "none" THEN dismissed \cup {<<p.kind, p.tool>>}
                          ELSE dismissed
    /\ UNCHANGED <<promptCount, lastPromptCall, notPrompt>>

InitPrompt ==
    /\ installsDeclinedTools = {}
    /\ updatesDeclinedTools = {}
    /\ prompts = {}
    /\ promptCount = 0
    /\ dismissed = {}
    /\ lastPromptCall = [kind |-> "none", tool |-> "", afterDismissal |-> FALSE, wentOn |-> FALSE]

NextPrompt ==
    \/ \E tool \in PromptTools : promptForMissingTool(tool)
    \/ \E tool \in PromptTools : promptForUpdatingTool(tool)
    \/ \E p \in prompts, below16 \in BOOLEAN : VersionKnown(p, below16)
    \/ \E p \in prompts, selected \in Selections : PromptAnswered(p, selected)

\* C12: a promptForMissingTool(T) call made after an install prompt for T
\* was dismissed returns without showing anything, and so for
\* promptForUpdatingTool after a dismissed update prompt; calls for
\* tools and kinds with no dismissed prompt go on to prompt.
C12_NoPromptAfterDecline ==
    lastPromptCall.kind # "none" =>
        (lastPromptCall.wentOn = ~lastPromptCall.afterDismissal)

C12_Witness ==
    /\ lastPromptCall.kind = "install" /\ lastPromptCall.afterDismissal
    /\ ~lastPromptCall.wentOn
    /\ <<"update", lastPromptCall.tool>> \notin dismissed
    /\ dismissed # {}

\* ----------------------------------------------------------------------
\* Format and build on save
\* ----------------------------------------------------------------------
\* stage of a save event's handling:
\*   "ignored"    the handler returned at once
\*   "formatting" formatter.formatDocument is running
\*   "applying"   workspace.applyEdit is running
\*   "saving"     document.save() was called
\*   "saved"      that save has fired its own save event
\*   "done"       formatPromise has settled and runBuilds was called
\* overlapped: another user save was being handled at the same time
SaveEvent(kind, stage, builds, overlapped) ==
    [kind |-> kind, stage |-> stage, builds |-> builds, saveCalls |-> 0,
     overlapped |-> overlapped, saveRejected |-> FALSE]

InProgress(e) == saves[e].stage \in {"formatting", "applying", "saving", "saved"}

\* the onDidSaveTextDocument handler for a save of the m2 document that
\* is the active editor's
OnDidSave(kind, formatOnSave) ==
    LET overlapped == kind = "user" /\ \E e \in DOMAIN saves : InProgress(e) IN
    IF ignoreNextSave THEN SaveEvent(kind, "ignored", 0, overlapped)
    ELSE IF formatOnSave THEN SaveEvent(kind, "formatting", 0, overlapped)
    ELSE SaveEvent(kind, "done", 1, overlapped)

MarkOverlapped(ss) ==
    [e \in DOMAIN ss |-> IF InProgress(e) THEN [ss[e] EXCEPT !.overlapped = TRUE] ELSE ss[e]]

UserSaves(formatOnSave) ==
    /\ Len(saves) < MaxSaves
    /\ saves' = Append(MarkOverlapped(saves), OnDidSave("user", formatOnSave))
    /\ UNCHANGED <<ignoreNextSave, notSave>>

\* formatDocument settles: on rejection the error handler runs and then
\* runBuilds
FormatSettles(e, ok) ==
    /\ saves[e].stage = "formatting"
    /\ saves' = [saves EXCEPT ![e] =
            IF ok THEN [@ EXCEPT !.stage = "applying"]
            ELSE [@ EXCEPT !.stage = "done", !.builds = @ + 1]]
    /\ UNCHANGED <<ignoreNextSave, notSave>>

\* applyEdit settles: resolved (applied or not) adds the document to
\* ignoreNextSave and calls document.save()
ApplySettles(e, ok) ==
    /\ saves[e].stage = "applying"
    /\ saves' = [saves EXCEPT ![e] =
            IF ok THEN [@ EXCEPT !.stage = "saving", !.saveCalls = @ + 1]
            ELSE [@ EXCEPT !.stage = "done", !.builds = @ + 1]]
    /\ ignoreNextSave' = (ok \/ ignoreNextSave)
    /\ UNCHANGED notSave

\* the document is written: its save event reaches the handler before
\* document.save() resolves
DocumentSaved(e) ==
    /\ saves[e].stage = "saving"
    /\ Len(saves) < MaxSaves
    /\ saves' = Append([saves EXCEPT ![e].stage = "saved"], OnDidSave("own", TRUE))
    /\ UNCHANGED <<ignoreNextSave, notSave>>

\* document.save() settles (without a save when the stage is "saving"):
\* resolved removes the document from ignoreNextSave; then runBuilds
SaveSettles(e, ok) ==
    /\ saves[e].stage \in {"saving", "saved"}
    /\ saves' = [saves EXCEPT ![e] =
            [@ EXCEPT !.stage = "done", !.builds = @ + 1, !.saveRejected = ~ok]]
    /\ ignoreNextSave' = IF ok THEN FALSE ELSE ignoreNextSave
    /\ UNCHANGED notSave

InitSave ==
    /\ ignoreNextSave = FALSE
    /\ saves = <<>>

NextSave ==
    \/ \E formatOnSave \in BOOLEAN : UserSaves(formatOnSave)
    \/ \E e \in DOMAIN saves, ok \in BOOLEAN : FormatSettles(e, ok)
    \/ \E e \in DOMAIN saves, ok \in BOOLEAN : ApplySettles(e, ok)
    \/ \E e \in DOMAIN saves : DocumentSaved(e)
    \/ \E e \in DOMAIN saves, ok \in BOOLEAN : SaveSettles(e, ok)

\* what C13 says of the save events so far
HandledAsClaimed(e) ==
    /\ saves[e].kind = "own" => (saves[e].stage = "ignored" /\ saves[e].builds = 0)
    /\ saves[e].kind = "user" =>
          /\ saves[e].stage # "ignored"
          /\ saves[e].saveCalls <= 1
          /\ saves[e].builds = (IF saves[e].stage = "done" THEN 1 ELSE 0)

\* C13: every user save is formatted once, saved once more and built
\* exactly once after the format pipeline settled; the save made by the
\* handler is neither formatted nor built.
C13_FormatOnceBuildOnce == \A e \in DOMAIN saves : HandledAsClaimed(e)

\* The same while user saves do not overlap and no document.save() was rejected.
C13_NoOverlapBuildOnce ==
    (\A e \in DOMAIN saves : ~saves[e].overlapped /\ ~saves[e].saveRejected)
        => C13_FormatOnceBuildOnce

\* ----------------------------------------------------------------------
\* Configuration changes
\* ----------------------------------------------------------------------
FlagLists == {<<>>, <<"-trace">>}
Configs ==
    [useLanguageServer : BOOLEAN, languageServerFlags : FlagLists, toolsGopath : {"", "A"}]
DefaultConfig == [useLanguageServer |-> FALSE, languageServerFlags |-> <<>>, toolsGopath |-> ""]
EmptyBinPathCache == [k \in {correctBinname(t) : t \in Tools} |-> NoPath]

didLangServerConfigChange(oldUse, oldFlags, newconfig) ==
    \/ oldUse # newconfig.useLanguageServer
    \/ Len(oldFlags) # Len(newconfig.languageServerFlags)
    \/ \E i \in DOMAIN oldFlags : newconfig.languageServerFlags[i] # oldFlags[i]

\* the remembered value never replaced
KeepsToolsGopath(remembered, new) == remembered

\* toolsGopath after the handler
RememberedToolsGopath(remembered, new) == IF remembered # new THEN new ELSE remembered

activate(platformWin32, initial) ==
    /\ configEvents = -1
    /\ configEvents' = 0
    /\ win32' = platformWin32
    /\ config' = initial
    /\ useLangServer' = initial.useLanguageServer
    /\ langServerFlags' = initial.languageServerFlags
    /\ toolsGopath' = initial.toolsGopath
    /\ UNCHANGED <<lastConfigEvent, varsPath, notConfigPath>>

\* the onDidChangeConfiguration handler; langServerUsable is what
\* checkLanguageServer() returns
ConfigurationChanged(updatedGoConfig, langServerUsable) ==
    /\ configEvents >= 0 /\ configEvents < MaxConfigEvents
    /\ configEvents' = configEvents + 1
    /\ config' = updatedGoConfig
    \* clearCacheForTools() when toolsGopath changed
    /\ binPathCache' = IF toolsGopath # updatedGoConfig.toolsGopath
                       THEN EmptyBinPathCache ELSE binPathCache
    /\ LET showsReload == /\ ~win32
                      /\ didLangServerConfigChange(useLangServer, langServerFlags, updatedGoConfig)
                      /\ (~updatedGoConfig.useLanguageServer \/ langServerUsable)
       IN lastConfigEvent' =
            [before |-> config, after |-> updatedGoConfig, reloadPrompt |-> showsReload,
             rememberedBefore |-> toolsGopath,
             rememberedAfter |-> RememberedToolsGopath(toolsGopath, updatedGoConfig.toolsGopath),
             cacheBefore |-> binPathCache, cacheAfter |-> binPathCache', handled |-> TRUE]
    /\ useLangServer' = updatedGoConfig.useLanguageServer
    /\ toolsGopath' = RememberedToolsGopath(toolsGopath, updatedGoConfig.toolsGopath)
    /\ UNCHANGED <<win32, langServerFlags, binFiles, lastLookup, lookupCount, fsChanges,
                   notConfigPath>>

InitConfig ==
    /\ config = DefaultConfig
    /\ win32 = FALSE
    /\ useLangServer = FALSE
    /\ langServerFlags = <<>>
    /\ toolsGopath = ""
    /\ configEvents = -1
    /\ lastConfigEvent =
          [before |-> DefaultConfig, after |-> DefaultConfig, reloadPrompt |-> FALSE,
           rememberedBefore |-> "", rememberedAfter |-> "",
           cacheBefore |-> EmptyBinPathCache, cacheAfter |-> EmptyBinPathCache, handled |-> FALSE]

\* the change events, with a tool binary appearing on PATH and being looked up
NextConfig ==
    \/ \E platformWin32 \in BOOLEAN, initial \in Configs : activate(platformWin32, initial)
    \/ \E updatedGoConfig \in Configs, langServerUsable \in BOOLEAN :
          ConfigurationChanged(updatedGoConfig, langServerUsable)
    \/ \E t \in Tools : BinaryAppears(<<EnvPATH[1], correctBinname(t)>>)
    \/ \E t \in Tools : getBinPathWithPreferredMonkey2path(t, <<>>)

LangServerSettingsDiffer(a, b) ==
    a.useLanguageServer # b.useLanguageServer \/ a.languageServerFlags # b.languageServerFlags

\* C14: the reload prompt is shown for a change event only when
\* useLanguageServer or languageServerFlags differs between the
\* configuration in effect before the event and the new one, and never
\* on win32.
C14_ReloadPromptOnlyOnChange ==
    lastConfigEvent.reloadPrompt =>
        (~win32 /\ LangServerSettingsDiffer(lastConfigEvent.before, lastConfigEvent.after))

BuildFlags == {<<>>, <<"-race">>}
\* the profiles go test writes
ToggleProfiles ==
    {<<>>,
     <<[matches |-> TRUE, file |-> "a.go", startLine |-> 1, isCovered |-> 1]>>,
     <<[matches |-> TRUE, file |-> "b.go", startLine |-> 1, isCovered |-> 0]>>,
     <<[matches |-> TRUE, file |-> "a.go", startLine |-> 1, isCovered |-> 1],
       [matches |-> TRUE, file |-> "b.go", startLine |-> 1, isCovered |-> 0]>>}
NoEditor == <<>>
ActivePath == IF activeEditor = 0 THEN NoEditor ELSE visibleEditors[activeEditor]

ToggleStep(step, testCalled, flags, success, outputShown, loadStarted) ==
    [step |-> step, editor |-> ActivePath,
     mapBefore |-> coverageFiles, mapAfter |-> coverageFiles',
     decorationsBefore |-> decorations, decorationsAfter |-> decorations',
     testCalled |-> testCalled, flags |-> flags, background |-> testCalled,
     success |-> success, outputShown |-> outputShown, loadStarted |-> loadStarted]

\* getCodeCoverage(editor), the onDidChangeActiveTextEditor listener
getCodeCoverage(e, fsPath) ==
    decorations' = [decorations EXCEPT ![e] =
        IF \E f \in Files : HasEntry(f) /\ endsWith(fsPath, FileName(f))
        THEN coverageFiles[CHOOSE f \in Files : HasEntry(f) /\ endsWith(fsPath, FileName(f))]
        ELSE @]

\* a document is shown in a new editor, which becomes the active one
ShowDocument(fsPath) ==
    /\ Len(visibleEditors) < MaxEditors
    /\ visibleEditors' = Append(visibleEditors, fsPath)
    /\ activeEditor' = Len(visibleEditors) + 1
    /\ getCodeCoverage(Len(visibleEditors) + 1, fsPath)
    /\ UNCHANGED <<coverageFiles, coverCalls, lastResolved, testsRunning, toggleCount,
                   lastToggle, notCoverToggle>>

\* the user moves to another visible editor
FocusEditor(e) ==
    /\ e \in DOMAIN visibleEditors
    /\ e # activeEditor
    /\ activeEditor' = e
    /\ getCodeCoverage(e, visibleEditors[e])
    /\ UNCHANGED <<coverageFiles, coverCalls, lastResolved, visibleEditors, testsRunning,
                   toggleCount, lastToggle, notCoverToggle>>

\* goTest's promise settles only when the runtime binary was found
toggleCoverageCurrentPackage(buildFlags, runtimeFound) ==
    /\ toggleCount < MaxToggles
    /\ toggleCount' = toggleCount + 1
    /\ IF activeEditor = 0
       THEN \* 'No editor is active.'
            /\ UNCHANGED <<coverageFiles, decorations, testsRunning>>
            /\ lastToggle' = ToggleStep("toggle", FALSE, <<>>, FALSE, FALSE, FALSE)
       ELSE IF \E f \in Files : HasEntry(f) /\ FoundFor(ActivePath, f)
       THEN /\ clearCoverage
            /\ UNCHANGED testsRunning
            /\ lastToggle' = ToggleStep("toggle", FALSE, <<>>, FALSE, FALSE, FALSE)
       ELSE /\ UNCHANGED <<coverageFiles, decorations>>
            /\ testsRunning' = IF runtimeFound THEN testsRunning + 1 ELSE testsRunning
            /\ lastToggle' = ToggleStep("toggle", TRUE, <<"-coverprofile">> \o buildFlags,
                                        FALSE, FALSE, FALSE)
    /\ UNCHANGED <<coverCalls, lastResolved, visibleEditors, activeEditor, notCoverToggle>>

\* goTest(...).then(success => ...): showTestOutput() or getCoverage()
TestSettles(success, c, profile) ==
    /\ testsRunning > 0
    /\ testsRunning' = testsRunning - 1
    /\ IF success
       THEN /\ StartReading(c, profile)
            /\ lastToggle' = ToggleStep("settled", FALSE, <<>>, TRUE, FALSE, TRUE)
       ELSE /\ UNCHANGED varsCover
            /\ lastToggle' = ToggleStep("settled", FALSE, <<>>, FALSE, TRUE, FALSE)
    /\ UNCHANGED <<visibleEditors, activeEditor, toggleCount, notCoverToggle>>

InitToggle ==
    /\ visibleEditors = <<>>
    /\ activeEditor = 0
    /\ testsRunning = 0
    /\ toggleCount = 0
    /\ lastToggle = [step |-> "none", editor |-> NoEditor,
                     mapBefore |-> NoCoverage, mapAfter |-> NoCoverage,
                     decorationsBefore |-> [e \in EditorSlots |-> EmptyCoverage],
                     decorationsAfter |-> [e \in EditorSlots |-> EmptyCoverage],
                     testCalled |-> FALSE, flags |-> <<>>, background |-> FALSE,
                     success |-> FALSE, outputShown |-> FALSE, loadStarted |-> FALSE]

NextToggle ==
    \/ \E fsPath \in EditorPaths : ShowDocument(fsPath)
    \/ \E e \in EditorSlots : FocusEditor(e)
    \/ \E buildFlags \in BuildFlags, runtimeFound \in BOOLEAN :
          toggleCoverageCurrentPackage(buildFlags, runtimeFound)
    \/ /\ testsRunning > 0
       /\ \E success \in BOOLEAN, c \in CoverCallIds, profile \in ToggleProfiles :
             TestSettles(success, c, profile)
    \/ \E c \in CoverCallIds : LineEvent(c)
    \/ \E c \in CoverCallIds : CloseEvent(c)

\* the map has an entry for the file of the editor
EntryForEditor(map, fsPath) ==
    \E f \in Files :
        /\ map[f] # EmptyCoverage
        /\ \/ endsWith(fsPath, FileName(f))
           \/ FileName(f)[1] = "_" /\ endsWith(fsPath, Tail(FileName(f)))
MapAndTestsUnchanged ==
    /\ lastToggle.mapAfter = lastToggle.mapBefore
    /\ ~lastToggle.testCalled
NoDecorationLeft ==
    \A e \in EditorSlots : lastToggle.decorationsAfter[e] = EmptyCoverage

\* what C15 says of the map and the tests
ToggleMapAndTests ==
    /\ lastToggle.step = "toggle" =>
          IF lastToggle.editor = NoEditor
          THEN MapAndTestsUnchanged /\ lastToggle.decorationsAfter = lastToggle.decorationsBefore
          ELSE IF EntryForEditor(lastToggle.mapBefore, lastToggle.editor)
          THEN lastToggle.mapAfter = NoCoverage /\ ~lastToggle.testCalled
          ELSE /\ lastToggle.testCalled
               /\ lastToggle.background
               /\ lastToggle.flags[1] = "-coverprofile"
               /\ lastToggle.mapAfter = lastToggle.mapBefore
    /\ lastToggle.step = "settled" =>
          IF lastToggle.success
          THEN lastToggle.loadStarted
          ELSE /\ ~lastToggle.loadStarted
               /\ lastToggle.outputShown
               /\ lastToggle.mapAfter = lastToggle.mapBefore

\* C15: with an entry for the active editor's file the toggle removes all
\* coverage, the decorations and the map, and runs no test; otherwise it
\* runs the package tests in the background with -coverprofile and loads
\* coverage only when they succeed, revealing the output when they fail;
\* without an active editor nothing changes.
C15_ToggleAsStated ==
    /\ ToggleMapAndTests
    /\ (/\ lastToggle.step = "toggle"
        /\ lastToggle.editor # NoEditor
        /\ EntryForEditor(lastToggle.mapBefore, lastToggle.editor)) => NoDecorationLeft

\* The same without the decorations: the map and the tests are as C15 says.
C15_MapAndTestsAsStated == ToggleMapAndTests /\ lastToggle.step \in {"none", "toggle", "settled"}

\* ----------------------------------------------------------------------
\* Parameters of a signature
\* ----------------------------------------------------------------------
\* the characters a signature is made of; "a" stands for any other one
SigChars == {"(", ")", ",", " ", "a"}
NullList == [isNull |-> TRUE, list |-> <<>>]
List(l) == [isNull |-> FALSE, list |-> l]

\* String.prototype.substring(start, end), indices from 0: the arguments
\* are swapped when start > end and cut at the length
substring(text, start, end) ==
    LET lo == IF start < end THEN start ELSE end
        hi == IF start < end THEN end ELSE start
        cut == IF hi > Len(text) THEN Len(text) ELSE hi
    IN SubSeq(text, lo + 1, cut)

RECURSIVE ParametersLoop(_, _, _, _, _)
\* the for loop of parameters() from index i on; signature[i] is
\* signature[i + 1] here
ParametersLoop(signature, i, parenCount, lastStart, ret) ==
    IF i >= Len(signature) THEN NullList
    ELSE LET ch == signature[i + 1] IN
         IF ch = "(" THEN ParametersLoop(signature, i + 1, parenCount + 1, lastStart, ret)
         ELSE IF ch = ")"
         THEN IF parenCount - 1 < 0
              THEN IF i > lastStart
                   THEN List(Append(ret, substring(signature, lastStart, i)))
                   ELSE List(ret)
              ELSE ParametersLoop(signature, i + 1, parenCount - 1, lastStart, ret)
         ELSE IF ch = "," /\ parenCount = 0
         THEN ParametersLoop(signature, i + 1, parenCount,
                             i + 2, Append(ret, substring(signature, lastStart, i)))
         ELSE ParametersLoop(signature, i + 1, parenCount, lastStart, ret)

\* the first parameter taken from the opening parenthesis on
parametersFromZero(signature) == ParametersLoop(signature, 1, 0, 0, <<>>)

parameters(signature) == ParametersLoop(signature, 1, 0, 1, <<>>)

\* one more character of the signature is known; at most one character
\* follows the parenthesis that closes the first group
SignatureGrows(ch) ==
    /\ Len(sig) < MaxSigLen
    /\ parameters(SubSeq(sig, 1, Len(sig) - 1)).isNull
    /\ sig' = Append(sig, ch)
    /\ lastParameters' = [called |-> FALSE, signature |-> <<>>, result |-> NullList]
    /\ UNCHANGED notParams

\* provideSignatureHelp calls parameters(sig)
parametersCall ==
    /\ ~lastParameters.called
    /\ lastParameters' = [called |-> TRUE, signature |-> sig, result |-> parameters(sig)]
    /\ UNCHANGED <<sig, notParams>>

InitParams ==
    /\ sig = <<"(">>
    /\ lastParameters = [called |-> FALSE, signature |-> <<>>, result |-> NullList]

NextParams ==
    \/ \E ch \in SigChars : SignatureGrows(ch)
    \/ parametersCall

\* nesting depth after the character at position i, the opening
\* parenthesis at position 1 not counted
RECURSIVE DepthAt(_, _)
DepthAt(text, i) ==
    IF i <= 1 THEN 0
    ELSE DepthAt(text, i - 1)
         + (IF text[i] = "(" THEN 1 ELSE IF text[i] = ")" THEN -1 ELSE 0)
\* position of the parenthesis closing the first group, 0 when never closed
CloseOf(text) ==
    IF \E i \in 2..Len(text) : DepthAt(text, i) < 0
    THEN CHOOSE i \in 2..Len(text) :
            DepthAt(text, i) < 0 /\ \A j \in 2..(i - 1) : DepthAt(text, j) >= 0
    ELSE 0
TopLevelCommas(text) ==
    {i \in 2..(CloseOf(text) - 1) : text[i] = "," /\ DepthAt(text, i) = 0}
\* where the k-th parameter of the first group starts and ends
ParamStarts(text) == {2} \cup {i + 2 : i \in TopLevelCommas(text)}
ParamEnds(text) == {i - 1 : i \in TopLevelCommas(text)} \cup {CloseOf(text) - 1}
RECURSIVE Sorted(_)
Sorted(S) ==
    IF S = {} THEN <<>>
    ELSE LET least == CHOOSE x \in S : \A y \in S : x <= y
         IN <<least>> \o Sorted(S \ {least})
TopLevelParams(text) ==
    IF CloseOf(text) = 2 THEN <<>>
    ELSE [k \in 1..Cardinality(ParamStarts(text)) |->
            SubSeq(text, Sorted(ParamStarts(text))[k], Sorted(ParamEnds(text))[k])]
\* a signature that starts with '(', closes its first group, separates
\* the parameters of that group with ', ' and has no empty parameter
SeparatedByCommaSpace(text) ==
    /\ Len(text) > 0 /\ text[1] = "("
    /\ CloseOf(text) # 0
    /\ \A i \in TopLevelCommas(text) : text[i + 1] = " "
    /\ \A k \in DOMAIN TopLevelParams(text) : TopLevelParams(text)[k] # <<>>

\* C16: for a signature that starts with '(' and separates parameters
\* with ', ', parameters returns the top-level parameters of the first
\* group, in order and with their exact text, splitting at no nested
\* comma and ignoring what follows the closing parenthesis; '()' gives
\* the empty list; and null is returned when the group is never closed.
C16_ParametersOfFirstGroup ==
    lastParameters.called =>
        /\ SeparatedByCommaSpace(lastParameters.signature) =>
              lastParameters.result = List(TopLevelParams(lastParameters.signature))
        /\ CloseOf(lastParameters.signature) = 0 => lastParameters.result = NullList

\* a func-typed parameter with a comma inside, followed by a second one
C16_Witness ==
    /\ lastParameters.called
    /\ lastParameters.signature = <<"(", "(", ",", ")", ",", " ", "a", ")">>
    /\ lastParameters.result = List(<<<<"(", ",", ")">>, <<"a">>>>)

\* ----------------------------------------------------------------------
\* Vendor support
\* ----------------------------------------------------------------------
VendorCallIds == 1..MaxVendorCalls
\* let vendorSupport: boolean = null
NoAnswer == [isNull |-> TRUE, value |-> FALSE]
Answer(b) == [isNull |-> FALSE, value |-> b]
\* process.env['GO15VENDOREXPERIMENT'], "" when not set
ExperimentValues == {"", "0", "1"}
\* what the runtime binary prints for 1.4, 1.6, 1.7, 1.10 and 2.0, or
\* text without a release tag
VendorOutputs ==
    {TaggedOutput(1, <<4>>), TaggedOutput(1, <<6>>), TaggedOutput(1, <<7>>),
     TaggedOutput(1, <<1, 0>>), TaggedOutput(2, <<0>>), UntaggedOutput}

\* the answer the then() callback of isVendorSupported returns
VendorAnswer(version) ==
    IF version.isNull THEN go15VendorExperiment # "0"
    ELSE IF version.major = 0 THEN FALSE
    ELSE IF version.major = 1
    THEN \/ version.minor > 6
         \/ (version.minor = 5 \/ version.minor = 6) /\ go15VendorExperiment = "1"
    ELSE TRUE
\* vendorSupport after the callback
VendorStored(version) == IF version.isNull THEN vendorSupport ELSE Answer(VendorAnswer(version))

VendorStep(v, version, cachedAtCall, answer) ==
    [call |-> v, version |-> version, reported |-> versionSource',
     experiment |-> go15VendorExperiment,
     cachedAtCall |-> cachedAtCall, cachedBefore |-> vendorSupport,
     cachedAfter |-> vendorSupport', answer |-> answer]

\* the extension host is started with GO15VENDOREXPERIMENT set
EnvironmentGiven(value) ==
    /\ go15VendorExperiment = ""
    /\ \A v \in VendorCallIds : vendorCalls[v].state = "idle"
    /\ go15VendorExperiment' = value
    /\ UNCHANGED <<vendorSupport, vendorCalls, versionSource, lastVendor, varsVersion,
                   notVersionVendor>>

\* isVendorSupported(); when getGoVersion() returns a settled promise the
\* then() callback runs before any other handler
isVendorSupported(v, c) ==
    /\ vendorCalls[v].state = "idle"
    /\ \A w \in VendorCallIds : w < v => vendorCalls[w].state # "idle"
    /\ IF vendorSupport # NoAnswer
       THEN /\ UNCHANGED <<vendorSupport, versionSource, varsVersion>>
            /\ vendorCalls' = [vendorCalls EXCEPT ![v] = [state |-> "resolved", on |-> 0]]
            /\ lastVendor' = VendorStep(v, NoVersion, vendorSupport, vendorSupport.value)
       ELSE /\ GetVersion(c)
            /\ UNCHANGED versionSource
            /\ IF versionCalls'[c].state = "resolved"
               THEN /\ vendorSupport' = VendorStored(lastVersionStep'.resolved)
                    /\ vendorCalls' = [vendorCalls EXCEPT ![v] = [state |-> "resolved", on |-> c]]
                    /\ lastVendor' = VendorStep(v, lastVersionStep'.resolved, NoAnswer,
                                                VendorAnswer(lastVersionStep'.resolved))
               ELSE /\ vendorCalls' = [vendorCalls EXCEPT ![v] = [state |-> "waiting", on |-> c]]
                    /\ UNCHANGED <<vendorSupport, lastVendor>>
    /\ UNCHANGED <<go15VendorExperiment, notVersionVendor>>

\* the execFile callback of getGoVersion() and the then() callback of the
\* isVendorSupported() call that waits for it
VendorVersionCallback(v, stdout) ==
    /\ vendorCalls[v].state = "waiting"
    /\ VersionParsed(vendorCalls[v].on, stdout)
    /\ versionSource' = IF stdout.tagged THEN stdout ELSE versionSource
    /\ vendorSupport' = VendorStored(goVersion')
    /\ vendorCalls' = [vendorCalls EXCEPT ![v].state = "resolved"]
    /\ lastVendor' = VendorStep(v, goVersion', NoAnswer, VendorAnswer(goVersion'))
    /\ UNCHANGED <<go15VendorExperiment, notVersionVendor>>

InitVendor ==
    /\ vendorSupport = NoAnswer
    /\ go15VendorExperiment = ""
    /\ vendorCalls = [v \in VendorCallIds |-> [state |-> "idle", on |-> 0]]
    /\ versionSource = UntaggedOutput
    /\ lastVendor = [call |-> 0, version |-> NoVersion, reported |-> UntaggedOutput,
                     experiment |-> "", cachedAtCall |-> NoAnswer, cachedBefore |-> NoAnswer,
                     cachedAfter |-> NoAnswer, answer |-> FALSE]

NextVendor ==
    \/ \E value \in ExperimentValues \ {""} : EnvironmentGiven(value)
    \/ \E v \in VendorCallIds, c \in VersionCallIds : isVendorSupported(v, c)
    \/ \E v \in VendorCallIds, stdout \in VendorOutputs : VendorVersionCallback(v, stdout)
    \/ RuntimeChanges

\* the number a sequence of decimal digits writes
RECURSIVE DigitsValue(_)
DigitsValue(digits) ==
    IF digits = <<>> THEN 0
    ELSE 10 * DigitsValue(SubSeq(digits, 1, Len(digits) - 1)) + digits[Len(digits)]

\* vendoring as C17 gives it for the version the binary reported
SupportsVendoring(reported, experiment) ==
    LET minor == DigitsValue(reported.minorDigits) IN
    \/ reported.major > 1
    \/ reported.major = 1 /\ minor >= 7
    \/ reported.major = 1 /\ minor \in {5, 6} /\ experiment = "1"

VendorStepCached(step) ==
    step.cachedAtCall # NoAnswer =>
        (step.answer = step.cachedAtCall.value /\ step.cachedAfter = step.cachedAtCall)
VendorStepUnknown(step) ==
    (step.cachedAtCall = NoAnswer /\ step.version.isNull) =>
        (step.answer = (step.experiment # "0") /\ step.cachedAfter = step.cachedBefore)

\* C17: for a known version the answer is true from 1.7 on, two-digit
\* minor versions included, and for every major version above 1, true for
\* 1.5 and 1.6 only with GO15VENDOREXPERIMENT '1', false below 1.5, and is
\* cached and returned by later calls; for an unknown version it is true
\* unless GO15VENDOREXPERIMENT is '0' and nothing is cached.
C17_VendorSupportByVersion ==
    lastVendor.call # 0 =>
        /\ VendorStepCached(lastVendor)
        /\ VendorStepUnknown(lastVendor)
        /\ (lastVendor.cachedAtCall = NoAnswer /\ ~lastVendor.version.isNull) =>
              /\ lastVendor.answer = SupportsVendoring(lastVendor.reported, lastVendor.experiment)
              /\ lastVendor.cachedAfter = Answer(lastVendor.answer)

\* The same for the versions whose minor number is one digit.
C17_OneDigitMinor ==
    (lastVendor.call # 0 /\ Len(lastVendor.reported.minorDigits) <= 1) =>
        C17_VendorSupportByVersion

\* ----------------------------------------------------------------------
\* Relative package path
\* ----------------------------------------------------------------------
\* Paths are sequences of characters: "/", "V" for the word vendor, "a"
\* for any other letter and "w" for the workspace folder.
PkgChars == {"/", "V", "a"}
DirChars == {"/", "a"}
\* getCurrentWorkspaceFromM2PATH(): path.join(workspace, 'modules')
CurrentWorkspace == <<"/", "w">>

\* String.prototype.indexOf, from 0, -1 when the pattern does not occur
indexOf(text, pattern) ==
    LET at == {i \in 0..(Len(text) - Len(pattern)) :
                  SubSeq(text, i + 1, i + Len(pattern)) = pattern}
    IN IF at = {} THEN -1 ELSE CHOOSE i \in at : \A j \in at : i <= j
startsWith(text, prefix) ==
    Len(prefix) <= Len(text) /\ SubSeq(text, 1, Len(prefix)) = prefix
\* path.join(a, b) for paths without empty, '.' or '..' segments, where
\* normalizing changes nothing; an empty b is left out
pathJoin(a, b) == IF b = <<>> THEN a ELSE a \o <<"/">> \o b

getRelativePackagePath(fileDir, workspace, pkg) ==
    LET slashVendor == indexOf(pkg, <<"/", "V", "/">>)
        magicVendorString == IF slashVendor = -1 THEN <<"V", "/">> ELSE <<"/", "V", "/">>
        vendorIndex == IF slashVendor # -1 THEN slashVendor
                       ELSE IF startsWith(pkg, magicVendorString) THEN 0 ELSE -1
        rootProjectForVendorPkg == pathJoin(workspace, substring(pkg, 0, vendorIndex))
        relativePathForVendorPkg ==
            substring(pkg, vendorIndex + Len(magicVendorString), Len(pkg))
    IN IF vendorIndex > -1
       THEN IF relativePathForVendorPkg # <<>> /\ startsWith(fileDir, rootProjectForVendorPkg)
            THEN relativePathForVendorPkg
            ELSE <<>>
       ELSE pkg

\* a path go list prints, or a folder: no empty segment, no leading '/'
NoEmptySegment(text, ch) ==
    IF text = <<>> THEN ch # "/" ELSE ~(text[Len(text)] = "/" /\ ch = "/")

\* one more character of a package path in allPkgs
PkgPathGrows(ch) ==
    /\ Len(pkgPath) < MaxPkgPathLen
    /\ NoEmptySegment(pkgPath, ch)
    /\ pkgPath' = Append(pkgPath, ch)
    /\ lastRelative' = [called |-> FALSE, fileDir |-> <<>>, pkgPath |-> <<>>, result |-> <<>>]
    /\ UNCHANGED <<fileDirSuffix, notPkg>>

\* one more character of the folder of the current file, below the workspace
FileDirGrows(ch) ==
    /\ Len(fileDirSuffix) < MaxFileDirLen
    /\ NoEmptySegment(fileDirSuffix, ch)
    /\ fileDirSuffix' = Append(fileDirSuffix, ch)
    /\ lastRelative' = [called |-> FALSE, fileDir |-> <<>>, pkgPath |-> <<>>, result |-> <<>>]
    /\ UNCHANGED <<pkgPath, notPkg>>

\* path.dirname(filePath)
CurrentFileDirPath == pathJoin(CurrentWorkspace, fileDirSuffix)

\* getImportablePackages calls getRelativePackagePath for a package
getRelativePackagePathCall ==
    /\ ~lastRelative.called
    /\ NoEmptySegment(fileDirSuffix, "/")
    /\ lastRelative' =
          [called |-> TRUE, fileDir |-> CurrentFileDirPath, pkgPath |-> pkgPath,
           result |-> getRelativePackagePath(CurrentFileDirPath, CurrentWorkspace, pkgPath)]
    /\ UNCHANGED <<pkgPath, fileDirSuffix, notPkg>>

InitPkg ==
    /\ pkgPath = <<>>
    /\ fileDirSuffix = <<>>
    /\ lastRelative = [called |-> FALSE, fileDir |-> <<>>, pkgPath |-> <<>>, result |-> <<>>]

NextPkg ==
    \/ \E ch \in PkgChars : PkgPathGrows(ch)
    \/ \E ch \in DirChars : FileDirGrows(ch)
    \/ getRelativePackagePathCall

\* the segments of a path
RECURSIVE Segments(_)
Segments(text) ==
    IF text = <<>> THEN <<>>
    ELSE IF indexOf(text, <<"/">>) = -1 THEN <<text>>
    ELSE <<SubSeq(text, 1, indexOf(text, <<"/">>))>>
         \o Segments(SubSeq(text, indexOf(text, <<"/">>) + 2, Len(text)))
\* position of the first segment that is the vendor folder and has a
\* '/' after it, 0 when there is none
VendorPosition(text) ==
    LET at == {i \in 1..Len(text) :
                  /\ text[i] = "V"
                  /\ i = 1 \/ text[i - 1] = "/"
                  /\ i < Len(text) /\ text[i + 1] = "/"
                  /\ i > 1 \/ indexOf(text, <<"/", "V", "/">>) = -1}
    IN IF at = {} THEN 0 ELSE CHOOSE i \in at : \A j \in at : i <= j
IsVendorPkg(text) == indexOf(text, <<"/", "V", "/">>) # -1 \/ startsWith(text, <<"V", "/">>)
BeforeVendor(text) == SubSeq(text, 1, VendorPosition(text) - 2)
AfterVendor(text) == SubSeq(text, VendorPosition(text) + 2, Len(text))
\* the folder dir is the folder root or lies below it
LiesUnder(dir, root) ==
    /\ Len(Segments(root)) <= Len(Segments(dir))
    /\ SubSeq(Segments(dir), 1, Len(Segments(root))) = Segments(root)

RelativeAsStated(dir, pkg) ==
    IF ~IsVendorPkg(pkg) THEN pkg
    ELSE IF AfterVendor(pkg) # <<>>
            /\ LiesUnder(dir, pathJoin(CurrentWorkspace, BeforeVendor(pkg)))
    THEN AfterVendor(pkg)
    ELSE <<>>

\* C18: a package that is not a vendor package is returned unchanged; a
\* vendor package gives the path after the vendor folder when the folder
\* of the current file lies under the root project owning the vendor
\* folder, and the empty string when the file belongs to another project
\* or nothing follows the vendor folder.
C18_RelativePathAsStated ==
    lastRelative.called =>
        lastRelative.result = RelativeAsStated(lastRelative.fileDir, lastRelative.pkgPath)

\* The same where no folder next to the root project has a name that
\* starts with the name of the root project.
C18_NoSiblingPrefix ==
    (/\ lastRelative.called
     /\ indexOf(lastRelative.fileDir, <<"a", "a">>) = -1
     /\ indexOf(lastRelative.pkgPath, <<"a", "a">>) = -1)
        => lastRelative.result = RelativeAsStated(lastRelative.fileDir, lastRelative.pkgPath)

\* ----------------------------------------------------------------------
\* LineBuffer
\* ----------------------------------------------------------------------
\* text is a sequence of characters: "n" is the newline, "a" any other one
BufChars == {"n", "a"}
Chunks == SeqsUpTo(BufChars, MaxChunkLen)

\* the first line of the buffer only
DrainOnce(buf, fired) ==
    IF indexOf(buf, <<"n">>) = -1 THEN [buf |-> buf, fired |-> fired]
    ELSE [buf |-> substring(buf, indexOf(buf, <<"n">>) + 1, Len(buf)),
          fired |-> Append(fired, substring(buf, 0, indexOf(buf, <<"n">>)))]

RECURSIVE Drain(_, _)
\* the do ... while (true) loop of append(): fireLine for each line of buf
Drain(buf, fired) ==
    LET idx == indexOf(buf, <<"n">>) IN
    IF idx = -1 THEN [buf |-> buf, fired |-> fired]
    ELSE Drain(substring(buf, idx + 1, Len(buf)), Append(fired, substring(buf, 0, idx)))

\* proc.stdout.on('data', chunk => outBuf.append(chunk.toString()))
append(chunk) ==
    /\ ~lastDone.called
    /\ appendCount < MaxAppends
    /\ appendCount' = appendCount + 1
    /\ fedText' = fedText \o chunk
    /\ lineBuf' = Drain(lineBuf \o chunk, firedLines).buf
    /\ firedLines' = Drain(lineBuf \o chunk, firedLines).fired
    /\ UNCHANGED <<lastDone, notLineBuf>>

\* proc.on('close', ...): outBuf.done()
done ==
    /\ ~lastDone.called
    /\ lastDone' = [called |-> TRUE, isNull |-> lineBuf = <<>>, last |-> lineBuf]
    /\ UNCHANGED <<lineBuf, firedLines, fedText, appendCount, notLineBuf>>

InitLineBuf ==
    /\ lineBuf = <<>>
    /\ firedLines = <<>>
    /\ fedText = <<>>
    /\ appendCount = 0
    /\ lastDone = [called |-> FALSE, isNull |-> FALSE, last |-> <<>>]

NextLineBuf ==
    \/ \E chunk \in Chunks : append(chunk)
    \/ done

\* the positions of the newlines of a text, in order
NewlinesOf(text) == Sorted({i \in 1..Len(text) : text[i] = "n"})
\* the newline-terminated segments of a text, without the newline
TerminatedSegments(text) ==
    [k \in 1..Len(NewlinesOf(text)) |->
        SubSeq(text, (IF k = 1 THEN 0 ELSE NewlinesOf(text)[k - 1]) + 1, NewlinesOf(text)[k] - 1)]
\* what follows the last newline
Remainder(text) ==
    IF NewlinesOf(text) = <<>> THEN text
    ELSE SubSeq(text, NewlinesOf(text)[Len(NewlinesOf(text))] + 1, Len(text))

\* C20: however the input is cut into chunks, the line listeners have
\* received exactly the newline-terminated segments of the concatenated
\* chunks, once each and in order, without the newline; after an append
\* the buffer holds no newline; and done() hands over the unterminated
\* remainder, or null when it is empty.
C20_ChunkingDoesNotMatter ==
    /\ firedLines = TerminatedSegments(fedText)
    /\ \A i \in DOMAIN lineBuf : lineBuf[i] # "n"
    /\ lastDone.called =>
          /\ lastDone.isNull = (Remainder(fedText) = <<>>)
          /\ ~lastDone.isNull => lastDone.last = Remainder(fedText)

\* two lines arrive in one chunk after a chunk that ends inside a line,
\* and done() hands over a remainder
C20_Witness ==
    /\ lastDone.called /\ ~lastDone.isNull
    /\ appendCount >= 2
    /\ Len(firedLines) >= 2
    /\ \E k \in DOMAIN firedLines : Len(firedLines[k]) >= 2

\* ----------------------------------------------------------------------
\* Specifications
\* ----------------------------------------------------------------------
Init == InitBp /\ InitDbg /\ InitTest /\ InitPath /\ InitCover /\ InitVersion /\ InitImpl /\ InitTool /\ InitInstall /\ InitPrompt /\ InitSave /\ InitConfig /\ InitToggle /\ InitParams /\ InitVendor /\ InitPkg /\ InitLineBuf

SpecBp == Init /\ [][NextBp]_vars
SpecDbg == Init /\ [][NextDbg]_vars
SpecTest == Init /\ [][NextTest]_vars
SpecPath == Init /\ [][NextPath]_vars
SpecCover == Init /\ [][NextCover]_vars
SpecVersion == Init /\ [][NextVersion]_vars
SpecImpl == Init /\ [][NextImpl]_vars /\ ImplFairness
SpecTool == Init /\ [][NextTool]_vars
SpecInstall == Init /\ [][NextInstall]_vars
SpecPrompt == Init /\ [][NextPrompt]_vars
SpecSave == Init /\ [][NextSave]_vars
SpecConfig == Init /\ [][NextConfig]_vars
SpecToggle == Init /\ [][NextToggle]_vars
SpecParams == Init /\ [][NextParams]_vars
SpecVendor == Init /\ [][NextVendor]_vars
SpecPkg == Init /\ [][NextPkg]_vars
SpecLineBuf == Init /\ [][NextLineBuf]_vars
====
